---- MODULE Spec2Model ----
(***************************************************************************)
(* Model of grantmatch:                                                    *)
(*   grants/services.py  SGGrantsService (fetch_grants, _fetch_via_api,    *)
(*                       _fetch_via_scraping, _parse_date, _parse_funding, *)
(*                       sync_grants_to_db, _extract_acronym)              *)
(*   grants/management/commands/sync_grants.py  Command                    *)
(*   grants/views.py     project_create, calculate_matches_for_project,    *)
(*                       toggle_save_grant, start_application,             *)
(*                       application_create, update_application_status     *)
(*   grants/models.py    Agency, Grant, Project, GrantMatch, Application   *)
(*                                                                         *)
(* Text is modelled as a sequence of one-character strings, so that the    *)
(* string operations of the code (strip, lower, upper, split, substring    *)
(* tests, the numeric-token regular expression, Decimal()) are computed    *)
(* character by character.  A Decimal is a pair of digit sequences, the    *)
(* integer part and the fraction part.                                     *)
(* Python's None is the empty tuple <<>>, a present value v is <<v>>.      *)
(***************************************************************************)
EXTENDS Integers, Sequences, FiniteSets, Bags, TLC

VARIABLES
    pc,             \* position of the sync command: "idle", "api_failed",
                    \* "scrape", "sync", "raised"
    agencies,       \* Agency table: sequence of rows, the row number is the key
    grants,         \* Grant table: sequence of rows, the row number is the key
    grants_data,    \* sync_grants_to_db: the list fetch_grants returned
    idx,            \* sync_grants_to_db: next element of grants_data
    created_count,  \* sync_grants_to_db: local counter
    updated_count,  \* sync_grants_to_db: local counter
    fetch,          \* what the running fetch_grants call has seen and done
    before,         \* the tables when the running sync started (see Before)
    last,           \* how the last finished sync ended
    history,        \* whether `last` also keeps the input and the tables
    runs,           \* number of syncs started
    fpieces,        \* funding texts: the pieces the funding text is made of
    fresult,        \* funding texts: outcome of _parse_funding, or NotCalled
    dpieces,        \* date texts: the pieces the date text is made of
    dresult,        \* date texts: outcome of _parse_date, or NotCalled
    grant_meta,     \* API records: the element of grant_metadata at hand
    grant_status,   \* API records: what _fetch_via_api made of it, or NotCalled
    npieces,        \* agency names: the pieces the agency name is made of
    nresult,        \* agency names: outcome of the agency step, or NotCalled
    projects,       \* Project table: sequence of rows, the row number is the key
    matches,        \* GrantMatch table: bag of rows
    applications,   \* Application table: sequence of rows
    now,            \* the clock that timezone.now() reads
    sample,         \* what the last sync_grants --sample reported
    evals,          \* with `history`, the evaluations the match scorer has made
    served          \* the last request served by a view that writes matches

fvars == <<fpieces, fresult>>
dvars == <<dpieces, dresult>>
pvars == <<grant_meta, grant_status, npieces, nresult>>
avars == <<projects, matches, applications, now, sample, evals, served>>
svars == <<pc, agencies, grants, grants_data, idx, created_count,
           updated_count, fetch, before, last, history, runs>>
vars == <<svars, fvars, dvars, pvars, avars>>

----------------------------------------------------------------------------
(* Characters and strings *)

UpperLetters == <<"A","B","C","D","E","F","G","H","I","J","K","L","M",
                  "N","O","P","Q","R","S","T","U","V","W","X","Y","Z">>
LowerLetters == <<"a","b","c","d","e","f","g","h","i","j","k","l","m",
                  "n","o","p","q","r","s","t","u","v","w","x","y","z">>
Digits == <<"0","1","2","3","4","5","6","7","8","9">>

IsDigit(c) == \E i \in 1..Len(Digits) : Digits[i] = c
DigitVal(c) == (CHOOSE i \in 1..Len(Digits) : Digits[i] = c) - 1
IsSpace(c) == c = " "

\* the letter of the other case, by letter
ToLower == [c \in {UpperLetters[i] : i \in 1..26} |->
                LowerLetters[CHOOSE i \in 1..26 : UpperLetters[i] = c]]
ToUpper == [c \in {LowerLetters[i] : i \in 1..26} |->
                UpperLetters[CHOOSE i \in 1..26 : LowerLetters[i] = c]]

LowerChar(c) == IF c \in DOMAIN ToLower THEN ToLower[c] ELSE c

UpperChar(c) == IF c \in DOMAIN ToUpper THEN ToUpper[c] ELSE c

\* str.lower() / str.upper()
Lower(s) == [i \in 1..Len(s) |-> LowerChar(s[i])]
Upper(s) == [i \in 1..Len(s) |-> UpperChar(s[i])]

\* the Python test `sub in s`
Contains(s, sub) ==
    \E i \in 1..(Len(s) - Len(sub) + 1) :
        \A j \in 1..Len(sub) : s[i + j - 1] = sub[j]

\* str.strip(): leading and trailing whitespace removed
Strip(s) ==
    LET keep == {i \in 1..Len(s) : ~IsSpace(s[i])}
    IN  IF keep = {} THEN <<>>
        ELSE LET lo == CHOOSE i \in keep : \A j \in keep : i <= j
                 hi == CHOOSE i \in keep : \A j \in keep : j <= i
             IN  SubSeq(s, lo, hi)

NotComma(c) == c # ","
\* funding_str.replace(',', '')
StripCommas(s) == SelectSeq(s, NotComma)

RECURSIVE Concat(_)
Concat(ss) == IF ss = <<>> THEN <<>> ELSE Head(ss) \o Concat(Tail(ss))

----------------------------------------------------------------------------
(* Decimal values: arbitrary-precision, as decimal.Decimal is.  A value is *)
(* [ip, fp]: the digits before the point without leading zeros and the     *)
(* digits after the point without trailing zeros, so that two values are   *)
(* numerically equal exactly when they are the same record.                *)

None == <<>>
Some(v) == <<v>>

RECURSIVE TrimLead(_)
TrimLead(ds) == IF ds # <<>> /\ Head(ds) = 0 THEN TrimLead(Tail(ds)) ELSE ds

RECURSIVE TrimTrail(_)
TrimTrail(ds) == IF ds # <<>> /\ ds[Len(ds)] = 0
                 THEN TrimTrail(SubSeq(ds, 1, Len(ds) - 1)) ELSE ds

Dec(ip, fp) == [ip |-> TrimLead(ip), fp |-> TrimTrail(fp)]

\* Decimal(token): digits, an optional point, digits.  A token the
\* constructor rejects (a comma inside it) is DecimalOk = FALSE.
DecimalOk(tok) ==
    /\ \A i \in 1..Len(tok) : IsDigit(tok[i]) \/ tok[i] = "."
    /\ \E i \in 1..Len(tok) : IsDigit(tok[i])
    /\ Cardinality({i \in 1..Len(tok) : tok[i] = "."}) <= 1

DigitsOf(cs) == [i \in 1..Len(cs) |-> DigitVal(cs[i])]

Decimal(tok) ==
    LET dots == {i \in 1..Len(tok) : tok[i] = "."}
        p    == IF dots = {} THEN Len(tok) + 1 ELSE CHOOSE i \in dots : TRUE
    IN  Dec(DigitsOf(SubSeq(tok, 1, p - 1)), DigitsOf(SubSeq(tok, p + 1, Len(tok))))

\* the value of a small natural number
RECURSIVE NatDigits(_)
NatDigits(n) == IF n = 0 THEN <<>> ELSE Append(NatDigits(n \div 10), n % 10)
DecOfNat(n) == Dec(NatDigits(n), <<>>)

\* val >= 1000
AtLeast1000(val) == Len(val.ip) >= 4

\* val / 1000: the point moves three places to the left
DivBy1000(val) ==
    LET padded == <<0, 0, 0>> \o val.ip
        n      == Len(padded)
    IN  Dec(SubSeq(padded, 1, n - 3), SubSeq(padded, n - 2, n) \o val.fp)

\* variant: the comparison is val >= 10000
ThousandsFrom10000(val) == IF Len(val.ip) >= 5 THEN DivBy1000(val) ELSE val

\* "if val >= 1000: val = val / 1000"
Thousands(val) == IF AtLeast1000(val) THEN DivBy1000(val) ELSE val

\* lexicographic a <= b on digit sequences of one length
RECURSIVE LexLE(_, _)
LexLE(a, b) == IF a = <<>> THEN TRUE
               ELSE IF Head(a) # Head(b) THEN Head(a) < Head(b)
               ELSE LexLE(Tail(a), Tail(b))

PadTo(ds, n) == ds \o [i \in 1..(n - Len(ds)) |-> 0]

\* a <= b
DecLE(a, b) ==
    IF Len(a.ip) # Len(b.ip) THEN Len(a.ip) < Len(b.ip)
    ELSE LET n == IF Len(a.fp) > Len(b.fp) THEN Len(a.fp) ELSE Len(b.fp)
         IN  LexLE(a.ip \o PadTo(a.fp, n), b.ip \o PadTo(b.fp, n))

----------------------------------------------------------------------------
(* re.findall(r'[\d,]+\.?\d*', s) *)

IsNumChar(c) == IsDigit(c) \/ c = ","

\* last index of the longest run of digit characters that starts at i
\* (i - 1 when the run is empty)
DigitRunEnd(s, i) ==
    CHOOSE j \in (i - 1)..Len(s) :
        /\ \A k \in i..j : IsDigit(s[k])
        /\ (j < Len(s) => ~IsDigit(s[j + 1]))

NumRunEnd(s, i) ==
    CHOOSE j \in (i - 1)..Len(s) :
        /\ \A k \in i..j : IsNumChar(s[k])
        /\ (j < Len(s) => ~IsNumChar(s[j + 1]))

RECURSIVE FindFrom(_, _)
FindFrom(s, i) ==
    IF i > Len(s) THEN <<>>
    ELSE IF IsNumChar(s[i])
    THEN LET j == NumRunEnd(s, i)
             k == IF j < Len(s) /\ s[j + 1] = "." THEN j + 1 ELSE j
             m == DigitRunEnd(s, k + 1)
         IN  <<SubSeq(s, i, m)>> \o FindFrom(s, m + 1)
    ELSE FindFrom(s, i + 1)

FindNumbers(s) == FindFrom(s, 1)

----------------------------------------------------------------------------
(* SGGrantsService._parse_funding *)

Returned(mn, mx) == [raised |-> FALSE, min |-> mn, max |-> mx]
\* an exception leaves _parse_funding (UnboundLocalError: `numbers`)
Raised == [raised |-> TRUE, min |-> None, max |-> None]

HasUpTo(s) == Contains(Lower(s), <<"u","p"," ","t","o">>)
HasRange(s) == Contains(s, <<"-">>) \/ Contains(Lower(s), <<"t","o">>)

\* lines 460-470: any number at all becomes the upper bound
AnyNumberResult(numbers) ==
    IF numbers # <<>> /\ DecimalOk(numbers[1])
    THEN Returned(None, Some(Thousands(Decimal(numbers[1]))))
    ELSE Returned(None, None)

\* variant: a single number is the upper bound only
RangeResultOneIsMax(numbers) ==
    IF Len(numbers) >= 2 /\ DecimalOk(numbers[1]) /\ DecimalOk(numbers[2])
    THEN Returned(Some(Thousands(Decimal(numbers[1]))),
                  Some(Thousands(Decimal(numbers[2]))))
    ELSE AnyNumberResult(numbers)

\* lines 437-457: two numbers are a range, one number is both bounds
RangeResult(numbers) ==
    IF Len(numbers) >= 2
    THEN IF DecimalOk(numbers[1]) /\ DecimalOk(numbers[2])
         THEN Returned(Some(Thousands(Decimal(numbers[1]))),
                       Some(Thousands(Decimal(numbers[2]))))
         ELSE AnyNumberResult(numbers)
    ELSE IF Len(numbers) = 1
    THEN IF DecimalOk(numbers[1])
         THEN Returned(Some(Thousands(Decimal(numbers[1]))),
                       Some(Thousands(Decimal(numbers[1]))))
         ELSE AnyNumberResult(numbers)
    ELSE AnyNumberResult(numbers)

\* `numbers` is assigned at line 423 (under "up to") and at line 436 (under
\* a range indicator) only; line 437 reads it in every case
_parse_funding(funding_str) ==
    IF funding_str = <<>> THEN Returned(None, None)
    ELSE
    LET s       == Strip(funding_str)
        numbers == FindNumbers(StripCommas(s))
    IN  IF HasUpTo(s) /\ numbers # <<>> /\ DecimalOk(numbers[1])
        THEN Returned(None, Some(Thousands(Decimal(numbers[1]))))
        ELSE IF ~HasUpTo(s) /\ ~HasRange(s)
        THEN Raised
        ELSE RangeResult(numbers)

----------------------------------------------------------------------------
(* Funding texts: up to MaxPieces pieces written one after the other *)

MaxPieces == 3

\* numerals as they are written, with the amount each one denotes
Numerals ==
    { [chars |-> <<"5","0","0">>,                           amount |-> 500],
      [chars |-> <<"9","9","9">>,                           amount |-> 999],
      [chars |-> <<"1","0","0","0">>,                       amount |-> 1000],
      [chars |-> <<"2",",","0","0","0">>,                   amount |-> 2000],
      [chars |-> <<"2","0",",","0","0","0",".","0","0">>,   amount |-> 20000] }

UpToWords == { <<"U","p"," ","t","o"," ">>, <<"U","P"," ","T","O"," ">>,
               <<"u","p"," ","t","o"," ">> }
Dollar == <<"$">>
Dash == <<" ","-"," ">>
ToWord == <<" ","t","o"," ">>
Blank == <<" ">>
KSuffix == <<"K">>

Pieces == {n.chars : n \in Numerals} \cup {Dollar \o n.chars : n \in Numerals}
            \cup UpToWords \cup {Dash, ToWord, Blank, KSuffix}

PieceSeqs == UNION {[1..n -> Pieces] : n \in 0..MaxPieces}

FundingText == Concat(fpieces)

\* fresult is <<>> until the parser has been applied, then <<outcome>>
NotCalled == <<>>

----------------------------------------------------------------------------
(* dict.get(key, default) on a record whose keys are its DOMAIN *)

Get(d, k, default) == IF k \in DOMAIN d THEN d[k] ELSE default

----------------------------------------------------------------------------
(* What the portal can answer *)

MaxItems == 2
MaxRuns == 2

Str_UpTo5000  == <<"U","p"," ","t","o"," ","$","5",",","0","0","0">>
Str_50K_100K  == <<"$","5","0","K"," ","-"," ","$","1","0","0","K">>
Str_500_2000  == <<"$","5","0","0"," ","-"," ","$","2",",","0","0","0">>
Str_5000      == <<"$","5","0","0","0">>
Name_AgInCa   == <<"A","g"," ","I","n"," ","C","a">>
Name_Old      == <<"O","l","d">>
Name_Aic      == <<"A","i","c">>
Name_Unknown  == <<"U","n","k","n","o","w","n">>
Code_AIC      == <<"A","I","C">>
Code_aic      == <<"a","i","c">>
Str_Closed    == <<"C","l","o","s","e","d">>
Desc_Dementia == <<"D","e","m","e","n","t","i","a"," ","C","a","r","e"," ","p","r","o","g","r","a","m","s">>

\* elements of the JSON list "grant_metadata", by a key of the model
ApiItem ==
    [a1 |-> [active |-> "true", enabled |-> "true", id |-> "E1", name |-> "T1",
             desc |-> Desc_Dementia,
             agency_name |-> Name_AgInCa, agency_code |-> Code_AIC,
             grant_amount |-> Str_UpTo5000, status |-> "green",
             closing_dates |-> <<>>],
     a2 |-> [active |-> "true", enabled |-> "true", id |-> "", name |-> "T1",
             agency_name |-> Name_AgInCa, agency_code |-> Code_aic,
             grant_amount |-> Str_50K_100K, status |-> "amber",
             closing_dates |-> <<>>],
     a3 |-> [active |-> "true", enabled |-> "true", id |-> "E2", name |-> "T1",
             agency_name |-> Name_Old, agency_code |-> Code_AIC,
             grant_amount |-> Str_500_2000, status |-> "red",
             closing_dates |-> <<>>],
     a4 |-> [active |-> "true", enabled |-> "true", id |-> "E1", name |-> "T2",
             agency_name |-> Name_AgInCa, agency_code |-> Code_AIC,
             grant_amount |-> Str_5000, status |-> "green",
             closing_dates |-> Str_Closed],
     a5 |-> [active |-> "false", enabled |-> "true", id |-> "E2", name |-> "T2",
             agency_name |-> Name_Old, agency_code |-> <<>>,
             grant_amount |-> <<>>, status |-> "green",
             closing_dates |-> <<>>]]
ApiItems == DOMAIN ApiItem

\* grant-like containers of the HTML listing page, by the text of the
\* elements _parse_grant_item looks for; Absent where there is no element
Absent == <<>>
HtmlItem ==
    [h1 |-> [title |-> <<"T1">>, agency |-> <<Name_AgInCa>>,
             funding |-> <<Str_50K_100K>>],
     h2 |-> [title |-> Absent, agency |-> <<Name_Old>>, funding |-> Absent],
     h3 |-> [title |-> <<"T2">>, agency |-> Absent, funding |-> <<Str_5000>>],
     h4 |-> [title |-> <<"T2">>, agency |-> <<Name_Aic>>, funding |-> Absent]]
HtmlItems == DOMAIN HtmlItem

SeqsUpTo(S, n) == UNION {[1..k -> S] : k \in 0..n}

ApiResponses ==
    { [kind |-> k, items |-> <<>>] :
          k \in {"network_error", "http_error", "malformed_json"} }
    \cup { [kind |-> "ok", items |-> its] : its \in SeqsUpTo(ApiItems, MaxItems) }

HtmlResponses ==
    { [kind |-> "error", items |-> <<>>] }
    \cup { [kind |-> "ok", items |-> its] : its \in SeqsUpTo(HtmlItems, MaxItems) }

----------------------------------------------------------------------------
(* SGGrantsService._fetch_via_api *)

\* lines 59-60: only active and enabled grants are kept
ApiItemKept(m) == ~(m.active # "true" \/ m.enabled # "true")

\* lines 77-80: the amount is parsed when there is one
ApiItemFunding(m) ==
    IF m.grant_amount # <<>> THEN _parse_funding(m.grant_amount)
    ELSE Returned(None, None)

\* variant: the code alone decides
ApiItemStatusCodeOnly(m) ==
    IF Get(m, "status", "open") = "red" THEN "closed" ELSE "open"

\* lines 83-89
ApiItemStatus(m) ==
    IF Get(m, "status", "open") = "green" THEN "open"
    ELSE IF Get(m, "status", "open") = "red"
            \/ Contains(Lower(m.closing_dates), <<"c","l","o","s","e","d">>)
    THEN "closed"
    ELSE "open"

\* lines 98-114
ApiItemRecord(m) ==
    LET funding == ApiItemFunding(m)
    IN  [external_id |-> m.id,
         title       |-> m.name,
         description |-> Get(m, "desc", <<>>),
         agency_name |-> m.agency_name,
         agency_code |-> m.agency_code,
         funding_min |-> funding.min,
         funding_max |-> funding.max,
         status      |-> ApiItemStatus(m)]

\* the loop body raises: nothing in the loop catches it
ApiItemRaises(m) == ApiItemKept(m) /\ ApiItemFunding(m).raised

RECURSIVE ApiRecords(_)
ApiRecords(items) ==
    IF items = <<>> THEN <<>>
    ELSE IF ApiItemKept(ApiItem[Head(items)])
    THEN <<ApiItemRecord(ApiItem[Head(items)])>> \o ApiRecords(Tail(items))
    ELSE ApiRecords(Tail(items))

\* [raised, data]: the call raises, or returns the list data
_fetch_via_api(resp) ==
    IF resp.kind # "ok"
    THEN [raised |-> TRUE, data |-> <<>>]
    ELSE IF \E i \in 1..Len(resp.items) : ApiItemRaises(ApiItem[resp.items[i]])
    THEN [raised |-> TRUE, data |-> <<>>]
    ELSE [raised |-> FALSE, data |-> ApiRecords(resp.items)]

----------------------------------------------------------------------------
(* SGGrantsService._parse_grant_item and _fetch_via_scraping *)

HtmlItemFunding(item) ==
    _parse_funding(IF item.funding = Absent THEN <<>> ELSE item.funding[1])

\* [kind, record]: "none" (no title), "raised", or "ok" with the record
_parse_grant_item(item) ==
    LET funding == HtmlItemFunding(item)
    IN  IF item.title = Absent \/ item.title[1] = ""
        THEN [kind |-> "none"]
        ELSE IF funding.raised
        THEN [kind |-> "raised"]
        ELSE [kind |-> "ok",
              record |-> [title       |-> item.title[1],
                          description |-> Get(item, "description", <<>>),
                          agency_name |-> IF item.agency = Absent
                                          THEN Name_Unknown ELSE item.agency[1],
                          funding_min |-> funding.min,
                          funding_max |-> funding.max]]

RECURSIVE ScrapedRecords(_)
ScrapedRecords(items) ==
    IF items = <<>> THEN <<>>
    ELSE LET parsed == _parse_grant_item(HtmlItem[Head(items)])
         IN  IF parsed.kind = "ok"
             THEN <<parsed.record>> \o ScrapedRecords(Tail(items))
             ELSE ScrapedRecords(Tail(items))

\* every failure is caught inside: the call returns what it has collected
_fetch_via_scraping(resp) ==
    IF resp.kind # "ok" THEN <<>> ELSE ScrapedRecords(resp.items)

----------------------------------------------------------------------------
(* SGGrantsService._extract_acronym *)

\* str.split(): the maximal runs of non-blank characters
RECURSIVE Split(_)
Split(s) ==
    IF s = <<>> THEN <<>>
    ELSE IF IsSpace(Head(s)) THEN Split(Tail(s))
    ELSE LET blanks == {i \in 1..Len(s) : IsSpace(s[i])}
             e == IF blanks = {} THEN Len(s) + 1
                  ELSE CHOOSE i \in blanks : \A j \in blanks : i <= j
         IN  <<SubSeq(s, 1, e - 1)>> \o Split(SubSeq(s, e, Len(s)))

\* s[:n]
Prefix(s, n) == SubSeq(s, 1, IF Len(s) < n THEN Len(s) ELSE n)

\* variant: the first letters of the words, for a single word too
_extract_acronymInitials(agency_name) ==
    LET w3 == Prefix(Split(agency_name), 3)
    IN  [i \in 1..Len(w3) |-> UpperChar(w3[i][1])]

_extract_acronym(agency_name) ==
    LET words == Split(agency_name)
    IN  IF Len(words) >= 2
        THEN LET w3 == Prefix(words, 3)
             IN  [i \in 1..Len(w3) |-> UpperChar(w3[i][1])]
        ELSE Upper(Prefix(agency_name, 3))

----------------------------------------------------------------------------
(* The body of the loop of sync_grants_to_db, lines 482-535 *)

\* rows of a table that a lookup selects
AgencyByAcronym(ags, code) == {i \in 1..Len(ags) : ags[i].acronym = code}
AgencyByName(ags, name) == {i \in 1..Len(ags) : ags[i].name = name}
GrantByExternalId(grs, ext) == {i \in 1..Len(grs) : grs[i].external_id = ext}
GrantByTitleAgency(grs, title, ag) ==
    {i \in 1..Len(grs) : grs[i].title = title /\ grs[i].agency = ag}

TheOne(S) == CHOOSE x \in S : TRUE

\* variant: get_or_create by acronym without the update of the name
ResolveAgencyKeepName(ags, grant_data) ==
    LET agency_code == Upper(Get(grant_data, "agency_code", <<>>))
        agency_name == Get(grant_data, "agency_name", Name_Unknown)
        found == IF agency_code # <<>> THEN AgencyByAcronym(ags, agency_code)
                 ELSE AgencyByName(ags, agency_name)
        acronym == IF agency_code # <<>> THEN agency_code
                   ELSE _extract_acronym(agency_name)
    IN  IF Cardinality(found) > 1 \/ (found = {} /\ AgencyByAcronym(ags, acronym) # {})
        THEN [raised |-> TRUE, agencies |-> ags, agency |-> 0]
        ELSE IF found = {}
        THEN [raised |-> FALSE,
              agencies |-> Append(ags, [name |-> agency_name, acronym |-> acronym]),
              agency |-> Len(ags) + 1]
        ELSE [raised |-> FALSE, agencies |-> ags, agency |-> TheOne(found)]

\* lines 484-502.  [raised, agencies, agency]: the tables after the step and
\* the key of the resolved Agency, or raised (IntegrityError on the unique
\* acronym, MultipleObjectsReturned on the lookup by name)
ResolveAgency(ags, grant_data) ==
    LET agency_code == Upper(Get(grant_data, "agency_code", <<>>))
        agency_name == Get(grant_data, "agency_name", Name_Unknown)
    IN  IF agency_code # <<>>
        THEN LET found == AgencyByAcronym(ags, agency_code)
             IN  IF found = {}
                 THEN [raised |-> FALSE,
                       agencies |-> Append(ags, [name |-> agency_name,
                                                 acronym |-> agency_code]),
                       agency |-> Len(ags) + 1]
                 ELSE LET a == TheOne(found)
                      IN  [raised |-> FALSE,
                           agencies |-> IF ags[a].name # agency_name
                                        THEN [ags EXCEPT ![a].name = agency_name]
                                        ELSE ags,
                           agency |-> a]
        ELSE LET found == AgencyByName(ags, agency_name)
                 acronym == _extract_acronym(agency_name)
             IN  IF Cardinality(found) > 1
                 THEN [raised |-> TRUE, agencies |-> ags, agency |-> 0]
                 ELSE IF Cardinality(found) = 1
                 THEN [raised |-> FALSE, agencies |-> ags, agency |-> TheOne(found)]
                 ELSE IF AgencyByAcronym(ags, acronym) # {}
                 THEN [raised |-> TRUE, agencies |-> ags, agency |-> 0]
                 ELSE [raised |-> FALSE,
                       agencies |-> Append(ags, [name |-> agency_name,
                                                 acronym |-> acronym]),
                       agency |-> Len(ags) + 1]

\* lines 505-512: the rows the lookup of update_or_create selects
GrantLookup(grs, grant_data, agency) ==
    LET external_id == Get(grant_data, "external_id", "")
    IN  IF external_id # ""
        THEN GrantByExternalId(grs, external_id)
        ELSE GrantByTitleAgency(grs, Get(grant_data, "title", ""), agency)

\* lines 517-529 and models.py 27-47: the row update_or_create creates; the
\* fields that are not among its defaults take the defaults of the model
GrantRow(grant_data, agency) ==
    [title       |-> Get(grant_data, "title", ""),
     agency      |-> agency,
     description |-> Get(grant_data, "description", <<>>),
     funding_min |-> Get(grant_data, "funding_min", None),
     funding_max |-> Get(grant_data, "funding_max", None),
     status      |-> Get(grant_data, "status", "open"),
     external_id |-> Get(grant_data, "external_id", ""),
     duration_years |-> "",
     match_score |-> 0]

\* the row update_or_create leaves when it updates the row old: the fields
\* that are not among its defaults stay
GrantRowUpdated(old, grant_data, agency) ==
    [GrantRow(grant_data, agency) EXCEPT !.duration_years = old.duration_years,
                                         !.match_score = old.match_score]

\* variant: a row is inserted whether or not the lookup finds one
UpsertGrantInserting(grs, grant_data, agency) ==
    [raised |-> FALSE,
     created |-> GrantLookup(grs, grant_data, agency) = {},
     grants |-> Append(grs, GrantRow(grant_data, agency))]

\* lines 515-530.  [raised, grants, created]
UpsertGrant(grs, grant_data, agency) ==
    LET found == GrantLookup(grs, grant_data, agency)
    IN  IF Cardinality(found) > 1
        THEN [raised |-> TRUE, grants |-> grs, created |-> FALSE]
        ELSE IF found = {}
        THEN [raised |-> FALSE, created |-> TRUE,
              grants |-> Append(grs, GrantRow(grant_data, agency))]
        ELSE [raised |-> FALSE, created |-> FALSE,
              grants |-> [grs EXCEPT ![TheOne(found)] =
                              GrantRowUpdated(grs[TheOne(found)], grant_data, agency)]]

----------------------------------------------------------------------------
(* The sync command *)

Tables == [agencies |-> agencies, grants |-> grants]

\* the number of Grant rows, and with `history` the tables themselves
Before == [grant_rows |-> Len(grants),
           tables |-> IF history THEN <<Tables>> ELSE <<>>]
NoBefore == [grant_rows |-> 0, tables |-> <<>>]

NoFetch == [api |-> "none", apiResp |-> <<>>, scraped |-> FALSE, htmlResp |-> <<>>]
NoRun == <<>>

\* no date text, and the tables and observations of the views as they are
\* before any request
DateIdle == dpieces = <<>> /\ dresult = NotCalled

StatusIdle == grant_meta = <<>> /\ grant_status = NotCalled

NameIdle == npieces = <<>> /\ nresult = NotCalled

NoLoad == <<>>
NoRequest == <<>>

AppInit ==
    /\ projects = <<>>
    /\ matches = EmptyBag
    /\ applications = <<>>
    /\ now = 1
    /\ sample = NoLoad
    /\ evals = {}
    /\ served = NoRequest

SyncInit ==
    /\ pc = "idle"
    /\ agencies = <<>>
    /\ grants = <<>>
    /\ grants_data = <<>>
    /\ idx = 1
    /\ created_count = 0
    /\ updated_count = 0
    /\ fetch = NoFetch
    /\ before = NoBefore
    /\ last = NoRun
    /\ runs = 0

\* variant: no fallback, the sync goes on with what the API attempt left
NextAfterApiNoFallback(api) == "sync"

\* what fetch_grants does after the API attempt, lines 31-38
NextAfterApi(api) == IF api.raised THEN "api_failed" ELSE "sync"

\* sync_grants_to_db is called; fetch_grants tries the API (lines 477, 29-35)
StartSync ==
    /\ pc = "idle"
    /\ runs < MaxRuns
    /\ \E resp \in ApiResponses :
         LET api == _fetch_via_api(resp)
         IN  /\ pc' = NextAfterApi(api)
             /\ grants_data' = api.data
             /\ fetch' = [NoFetch EXCEPT !.api = IF api.raised THEN "failed" ELSE "ok",
                                         !.apiResp = <<resp>>]
    /\ runs' = runs + 1
    /\ idx' = 1
    /\ created_count' = 0
    /\ updated_count' = 0
    /\ before' = Before
    /\ UNCHANGED <<agencies, grants, last, history, fvars, dvars, pvars, avars>>

\* fetch_grants catches the exception of the API attempt, lines 34-35
ApiFailed ==
    /\ pc = "api_failed"
    /\ pc' = "scrape"
    /\ fetch' = [fetch EXCEPT !.apiResp = <<>>]
    /\ UNCHANGED <<agencies, grants, grants_data, idx, created_count,
                   updated_count, before, last, history, runs, fvars, dvars, pvars, avars>>

\* the fallback of fetch_grants, lines 36-42
Scrape ==
    /\ pc = "scrape"
    /\ \E resp \in HtmlResponses :
         /\ grants_data' = _fetch_via_scraping(resp)
         /\ fetch' = [fetch EXCEPT !.scraped = TRUE, !.htmlResp = <<resp>>]
    /\ pc' = "sync"
    /\ UNCHANGED <<agencies, grants, idx, created_count, updated_count,
                   before, last, history, runs, fvars, dvars, pvars, avars>>

\* how a sync ended; with `history` also the summary it returned (lines
\* 537-541), its input and the tables it left
RunRecord(outcome) ==
    <<[outcome |-> outcome,
       summary |-> IF history /\ outcome = "completed"
                   THEN <<[created |-> created_count, updated |-> updated_count,
                           total |-> Len(grants_data)]>>
                   ELSE <<>>,
       input |-> IF history THEN <<grants_data>> ELSE <<>>,
       tables |-> IF history THEN <<Tables>> ELSE <<>>]>>

\* the locals of sync_grants_to_db are gone when it has ended
LocalsGone ==
    /\ grants_data' = <<>>
    /\ idx' = 1
    /\ created_count' = 0
    /\ updated_count' = 0
    /\ fetch' = NoFetch
    /\ before' = NoBefore

\* one iteration of the loop, lines 482-535; an exception ends the sync
\* with what was written so far left in the tables
SyncRecord ==
    /\ pc = "sync"
    /\ idx <= Len(grants_data)
    /\ LET grant_data == grants_data[idx]
           a == ResolveAgency(agencies, grant_data)
           g == UpsertGrant(grants, grant_data, a.agency)
       IN  /\ agencies' = a.agencies
           /\ IF a.raised
              THEN /\ UNCHANGED <<grants, created_count, updated_count, idx>>
                   /\ pc' = "raised"
              ELSE IF g.raised
              THEN /\ UNCHANGED <<grants, created_count, updated_count, idx>>
                   /\ pc' = "raised"
              ELSE /\ grants' = g.grants
                   /\ created_count' = created_count + (IF g.created THEN 1 ELSE 0)
                   /\ updated_count' = updated_count + (IF g.created THEN 0 ELSE 1)
                   /\ idx' = idx + 1
                   /\ pc' = "sync"
    /\ fetch' = NoFetch
    /\ UNCHANGED <<grants_data, before, last, history, runs, fvars, dvars, pvars, avars>>

\* lines 537-541: the summary is returned
FinishSync ==
    /\ pc = "sync"
    /\ idx > Len(grants_data)
    /\ pc' = "idle"
    /\ last' = RunRecord("completed")
    /\ LocalsGone
    /\ UNCHANGED <<agencies, grants, history, runs, fvars, dvars, pvars, avars>>

\* the exception reaches the command, which reports it (sync_grants.py 44-50)
ReportError ==
    /\ pc = "raised"
    /\ pc' = "idle"
    /\ last' = RunRecord("raised")
    /\ LocalsGone
    /\ UNCHANGED <<agencies, grants, history, runs, fvars, dvars, pvars, avars>>

FundingIdle == fpieces = <<>> /\ fresult = NotCalled

Init == SyncInit /\ history = FALSE /\ FundingIdle /\ DateIdle /\ StatusIdle
        /\ NameIdle /\ AppInit

Next == \/ StartSync
        \/ ApiFailed
        \/ Scrape
        \/ SyncRecord
        \/ FinishSync
        \/ ReportError

Spec == Init /\ [][Next]_vars

\* the same program, observed with the input and the tables of the last
\* finished sync kept for comparison
InitHistory == SyncInit /\ history = TRUE /\ FundingIdle /\ DateIdle /\ StatusIdle
        /\ NameIdle /\ AppInit

SpecHistory == InitHistory /\ [][Next]_vars

----------------------------------------------------------------------------
(* The funding parser on its own *)

FundingInit == /\ fpieces \in PieceSeqs
               /\ fresult = NotCalled
               /\ SyncInit
               /\ history = FALSE
               /\ DateIdle
               /\ StatusIdle
               /\ NameIdle
               /\ AppInit

ApplyParseFunding ==
    /\ fresult = NotCalled
    /\ fresult' = <<_parse_funding(FundingText)>>
    /\ UNCHANGED <<fpieces, svars, dvars, pvars, avars>>

FundingNext == ApplyParseFunding

SpecFunding == FundingInit /\ [][FundingNext]_vars

----------------------------------------------------------------------------
(* datetime.strptime, for the directives the date formats of _parse_date   *)
(* use.  A format is a sequence of tokens: a directive ("%d", "%m", "%Y",  *)
(* "%b", "%B", "%H", "%M", "%S"), " " for a run of white space, or a       *)
(* literal character.  A parse is the position reached and the fields read *)
(* so far; a token maps a parse to the set of parses it allows, and the    *)
(* text is converted when a parse reaches its end with a date that exists. *)

RECURSIVE NatOf(_)
NatOf(ds) == IF ds = <<>> THEN 0
             ELSE 10 * NatOf(SubSeq(ds, 1, Len(ds) - 1)) + DigitVal(ds[Len(ds)])

AllDigits(s, i, j) == j <= Len(s) /\ \A k \in i..j : IsDigit(s[k])

\* a numeric directive: two digits whose value is in lo2..hi2, or one digit
\* whose value is at least lo1
NumField(s, i, lo2, hi2, lo1) ==
    (IF AllDigits(s, i, i + 1) /\ NatOf(SubSeq(s, i, i + 1)) \in lo2..hi2
     THEN {[pos |-> i + 2, val |-> NatOf(SubSeq(s, i, i + 1))]} ELSE {})
    \cup
    (IF AllDigits(s, i, i) /\ DigitVal(s[i]) >= lo1
     THEN {[pos |-> i + 1, val |-> DigitVal(s[i])]} ELSE {})

\* %d also takes a blank and one digit
DayField(s, i) ==
    NumField(s, i, 1, 31, 1)
    \cup (IF i + 1 <= Len(s) /\ s[i] = " " /\ IsDigit(s[i + 1]) /\ s[i + 1] # "0"
          THEN {[pos |-> i + 2, val |-> DigitVal(s[i + 1])]} ELSE {})

YearField(s, i) ==
    IF AllDigits(s, i, i + 3)
    THEN {[pos |-> i + 4, val |-> NatOf(SubSeq(s, i, i + 3))]} ELSE {}

MonthNames ==
    <<<<"j","a","n","u","a","r","y">>,
      <<"f","e","b","r","u","a","r","y">>,
      <<"m","a","r","c","h">>,
      <<"a","p","r","i","l">>,
      <<"m","a","y">>,
      <<"j","u","n","e">>,
      <<"j","u","l","y">>,
      <<"a","u","g","u","s","t">>,
      <<"s","e","p","t","e","m","b","e","r">>,
      <<"o","c","t","o","b","e","r">>,
      <<"n","o","v","e","m","b","e","r">>,
      <<"d","e","c","e","m","b","e","r">>>>

StartsAt(s, i, w) == i + Len(w) - 1 <= Len(s) /\ Lower(SubSeq(s, i, i + Len(w) - 1)) = w

\* %B: a month name in any letter case; %b: its first three letters
MonthNameField(s, i) ==
    {[pos |-> i + Len(MonthNames[m]), val |-> m] :
         m \in {k \in 1..12 : StartsAt(s, i, MonthNames[k])}}
MonthAbbrField(s, i) ==
    {[pos |-> i + 3, val |-> m] :
         m \in {k \in 1..12 : StartsAt(s, i, SubSeq(MonthNames[k], 1, 3))}}

WhiteRun(s, i) == {j \in (i + 1)..(Len(s) + 1) : \A k \in i..(j - 1) : IsSpace(s[k])}

NoFields == [Y |-> 1900, m |-> 1, d |-> 1, H |-> 0, M |-> 0, S |-> 0]

\* the parses one token allows after the parse st
TokenStep(s, st, tok) ==
    LET i == st.pos
        With(fld, reads) == {[pos |-> r.pos, f |-> [st.f EXCEPT ![fld] = r.val]] : r \in reads}
    IN  IF tok = "%d" THEN With("d", DayField(s, i))
        ELSE IF tok = "%m" THEN With("m", NumField(s, i, 1, 12, 1))
        ELSE IF tok = "%Y" THEN With("Y", YearField(s, i))
        ELSE IF tok = "%b" THEN With("m", MonthAbbrField(s, i))
        ELSE IF tok = "%B" THEN With("m", MonthNameField(s, i))
        ELSE IF tok = "%H" THEN With("H", NumField(s, i, 0, 23, 0))
        ELSE IF tok = "%M" THEN With("M", NumField(s, i, 0, 59, 0))
        ELSE IF tok = "%S" THEN With("S", NumField(s, i, 0, 61, 0))
        ELSE IF tok = " " THEN {[pos |-> j, f |-> st.f] : j \in WhiteRun(s, i)}
        ELSE IF i <= Len(s) /\ s[i] = tok THEN {[pos |-> i + 1, f |-> st.f]}
        ELSE {}

RECURSIVE Parses(_, _, _)
Parses(s, sts, fmt) ==
    IF fmt = <<>> THEN sts
    ELSE Parses(s, UNION {TokenStep(s, st, Head(fmt)) : st \in sts}, Tail(fmt))

IsLeap(y) == y % 4 = 0 /\ (y % 100 # 0 \/ y % 400 = 0)
DaysIn(y, m) == IF m = 2 THEN (IF IsLeap(y) THEN 29 ELSE 28)
                ELSE IF m \in {4, 6, 9, 11} THEN 30 ELSE 31

\* the fields make a datetime
Exists(f) == f.Y >= 1 /\ f.d <= DaysIn(f.Y, f.m) /\ f.S <= 59

ValueError == [ok |-> FALSE]

\* datetime.strptime(s, fmt).date(), or ValueError
strptime(s, fmt) ==
    LET whole == {st \in Parses(s, {[pos |-> 1, f |-> NoFields]}, fmt) :
                      st.pos = Len(s) + 1 /\ Exists(st.f)}
    IN  IF whole = {} THEN ValueError
        ELSE LET f == (CHOOSE st \in whole : TRUE).f
             IN  [ok |-> TRUE, date |-> [year |-> f.Y, month |-> f.m, day |-> f.d]]

----------------------------------------------------------------------------
(* SGGrantsService._parse_date, lines 369-406 *)

\* line 378
Keywords == {<<"o","p","e","n">>,
             <<"c","l","o","s","e","d">>,
             <<"a","p","p","l","i","c","a","t","i","o","n","s">>,
             <<"t","b","a">>,
             <<"n","/","a">>}

\* lines 382-389
date_formats ==
    <<<<"%d", " ", "%b", " ", "%Y">>,
      <<"%d", " ", "%B", " ", "%Y">>,
      <<"%Y", "-", "%m", "-", "%d">>,
      <<"%d", "/", "%m", "/", "%Y">>,
      <<"%d", "-", "%m", "-", "%Y">>,
      <<"%Y", "-", "%m", "-", "%d", " ", "%H", ":", "%M", ":", "%S">>>>

\* line 401: re.match(r'\d{4}-\d{2}-\d{2}', date_str)
LooksIso(s) ==
    /\ Len(s) >= 10
    /\ \A k \in {1, 2, 3, 4, 6, 7, 9, 10} : IsDigit(s[k])
    /\ s[5] = "-" /\ s[8] = "-"

\* [value, tried]: the date or None, and whether a date format was tried
DateOutcome(value, tried) == [value |-> value, tried |-> tried]

\* lines 392-406: the formats in turn, then the ISO prefix
TryFormats(s) ==
    LET fits == {k \in 1..Len(date_formats) : strptime(s, date_formats[k]).ok}
    IN  IF fits # {}
        THEN LET k == CHOOSE x \in fits : \A y \in fits : x <= y
             IN  DateOutcome(Some(strptime(s, date_formats[k]).date), TRUE)
        ELSE IF LooksIso(s) /\ strptime(SubSeq(s, 1, 10), date_formats[3]).ok
        THEN DateOutcome(Some(strptime(SubSeq(s, 1, 10), date_formats[3]).date), TRUE)
        ELSE DateOutcome(None, TRUE)

\* variant: the status words are not looked for
_parse_dateAnyText(date_str) ==
    IF date_str = <<>> THEN DateOutcome(None, FALSE)
    ELSE TryFormats(Strip(date_str))

_parse_date(date_str) ==
    IF date_str = <<>> THEN DateOutcome(None, FALSE)
    ELSE LET s == Strip(date_str)
         IN  IF \E keyword \in Keywords : Contains(Lower(s), keyword)
             THEN DateOutcome(None, FALSE)
             ELSE TryFormats(s)

----------------------------------------------------------------------------
(* Date texts: a text is the concatenation of at most MaxDateParts pieces *)

MaxDateParts == 2

Dp_Open == <<"O","p","e","n">>
Dp_Closed == <<"C","L","O","S","E","D">>
Dp_Applications == <<"A","p","p","l","i","c","a","t","i","o","n","s">>
Dp_Tba == <<"t","B","a">>
Dp_Na == <<"N","/","A">>
Dp_Iso == <<"2","0","2","4","-","1","0","-","3","0">>
Dp_Slash == <<"3","0","/","1","0","/","2","0","2","4">>
Dp_Abbr == <<"3","0"," ","O","c","t"," ","2","0","2","4">>
Dp_Name == <<"1"," ","o","c","t","o","b","e","r"," ","2","0","2","4">>
Dp_Dash == <<"3","0","-","1","0","-","2","0","2","4">>
Dp_Stamp == <<"2","0","2","4","-","1","0","-","3","0"," ","1","2",":","0","0",":","0","0">>
Dp_NoSuchDay == <<"2","0","2","3","-","0","2","-","2","9">>
Dp_Time == <<"T","0","0",":","0","0">>
Dp_Blank == <<" ">>
Dp_Soon == <<"s","o","o","n">>

StatusWords == {Dp_Open, Dp_Closed, Dp_Applications, Dp_Tba, Dp_Na}
DateWords == {Dp_Iso, Dp_Slash, Dp_Abbr, Dp_Name, Dp_Dash, Dp_Stamp}
DatePieces == StatusWords \cup DateWords \cup {Dp_NoSuchDay, Dp_Time, Dp_Blank, Dp_Soon}

DateText == Concat(dpieces)

DateInit == /\ dpieces \in SeqsUpTo(DatePieces, MaxDateParts)
            /\ dresult = NotCalled
            /\ SyncInit
            /\ history = FALSE
            /\ FundingIdle
            /\ StatusIdle
            /\ NameIdle
            /\ AppInit

ApplyParseDate ==
    /\ dresult = NotCalled
    /\ dresult' = <<_parse_date(DateText)>>
    /\ UNCHANGED <<dpieces, svars, fvars, pvars, avars>>

DateNext == ApplyParseDate

SpecDate == DateInit /\ [][DateNext]_vars

----------------------------------------------------------------------------
(* One element of grant_metadata through the loop body of _fetch_via_api,  *)
(* services.py 56-116                                                       *)

Str_RegistrationClosed ==
    <<"r","e","g","i","s","t","r","a","t","i","o","n"," ","C","L","O","S","E","D">>
Str_OpenForApplications ==
    <<"O","p","e","n"," ","f","o","r"," ","A","p","p","l","i","c","a","t","i","o","n","s">>

\* values of the key "status": the two codes the loop looks for, other
\* codes, and the two codes in another letter case
StatusCodes == {"green", "red", "amber", "Green", "RED", "", "open", "closed"}

\* str(closing_dates): nothing, and texts with and without "closed"
ClosingTexts == {<<>>, Str_Closed, Str_RegistrationClosed, Str_OpenForApplications}

\* the element without the key "status"
MetaWithoutStatus ==
    [active : {"true"}, enabled : {"true", "false"}, id : {"E1"}, name : {"T1"},
     agency_name : {Name_AgInCa}, agency_code : {Code_AIC, <<>>},
     grant_amount : {<<>>, Str_UpTo5000, Str_5000},
     closing_dates : ClosingTexts]

MetaWithStatus ==
    [active : {"true"}, enabled : {"true", "false"}, id : {"E1"}, name : {"T1"},
     agency_name : {Name_AgInCa}, agency_code : {Code_AIC, <<>>},
     grant_amount : {<<>>, Str_UpTo5000, Str_5000},
     closing_dates : ClosingTexts, status : StatusCodes]

\* lines 58-59 (skipped), 80 (_parse_funding raises), 98-116 (appended)
ApiItemOutcome(m) ==
    IF ~ApiItemKept(m) THEN [kind |-> "skipped", status |-> ""]
    ELSE IF ApiItemRaises(m) THEN [kind |-> "raised", status |-> ""]
    ELSE [kind |-> "appended", status |-> ApiItemRecord(m).status]

StatusInit == /\ grant_meta \in (MetaWithStatus \cup MetaWithoutStatus)
              /\ grant_status = NotCalled
              /\ SyncInit
              /\ history = FALSE
              /\ FundingIdle
              /\ DateIdle
              /\ NameIdle
              /\ AppInit

ApplyLoopBody ==
    /\ grant_status = NotCalled
    /\ grant_meta # <<>>
    /\ grant_status' = <<ApiItemOutcome(grant_meta)>>
    /\ UNCHANGED <<grant_meta, npieces, nresult, svars, fvars, dvars, avars>>

StatusNext == ApplyLoopBody

SpecStatus == StatusInit /\ [][StatusNext]_vars

----------------------------------------------------------------------------
(* The agency step of sync_grants_to_db, services.py 484-502, for a record *)
(* without agency_code                                                      *)

MaxNameParts == 4

Np_Ag      == <<"A","g"," ">>
Np_in      == <<"i","n"," ">>
Np_Ca      == <<"C","a">>
Np_Amp     == <<"&"," ">>
Np_Blank   == <<" ">>

\* words with and without a blank after them, a blank, a word of more than
\* three letters
NamePieces == {Np_Ag, Np_in, Np_Ca, Np_Amp, Np_Blank, Name_Unknown}

AgencyName == Concat(npieces)

\* Agency tables the step may find: empty, or one row whose acronym is that
\* of "Ag in Ca"
StoredAgencies == {<<>>, <<[name |-> Name_Old, acronym |-> Code_AIC]>>}

\* a record of the scraping path: no agency_code
NamedRecord == [title |-> "T1", agency_name |-> AgencyName]

NameInit == /\ npieces \in SeqsUpTo(NamePieces, MaxNameParts)
            /\ nresult = NotCalled
            /\ SyncInit
            /\ history = FALSE
            /\ FundingIdle
            /\ DateIdle
            /\ StatusIdle
            /\ AppInit

ApplyResolveAgency ==
    /\ nresult = NotCalled
    /\ \E ags \in StoredAgencies :
         nresult' = <<[stored |-> ags, step |-> ResolveAgency(ags, NamedRecord)]>>
    /\ UNCHANGED <<npieces, grant_meta, grant_status, svars, fvars, dvars, avars>>

NameNext == ApplyResolveAgency

SpecName == NameInit /\ [][NameNext]_vars

----------------------------------------------------------------------------
(* SAMPLE_GRANTS_DATA, services.py 568-617.  closing_date and icon_name are *)
(* left out: no operation of the model reads them.                          *)

Sample1_agency_name ==
    <<"A","g","e","n","c","y"," ","f","o","r"," ","I","n","t","e","g","r","a",
      "t","e","d"," ","C","a","r","e">>
Sample1_description ==
    <<"S","u","p","p","o","r","t","s"," ","i","n","n","o","v","a","t","i","v",
      "e"," ","c","o","m","m","u","n","i","t","y"," ","c","a","r","e"," ","p",
      "r","o","g","r","a","m","s"," ","f","o","r"," ","s","e","n","i","o","r",
      "s",","," ","i","n","c","l","u","d","i","n","g"," ","d","e","m","e","n",
      "t","i","a"," ","c","a","r","e"," ","i","n","i","t","i","a","t","i","v",
      "e","s",".">>
Sample2_agency_name ==
    <<"M","i","n","i","s","t","r","y"," ","o","f"," ","S","o","c","i","a","l",
      " ","a","n","d"," ","F","a","m","i","l","y"," ","D","e","v","e","l","o",
      "p","m","e","n","t">>
Sample2_description ==
    <<"F","u","n","d","i","n","g"," ","f","o","r"," ","a","c","t","i","v","e",
      " ","a","g","i","n","g"," ","i","n","i","t","i","a","t","i","v","e","s",
      " ","a","n","d"," ","p","r","o","g","r","a","m","s"," ","t","h","a","t",
      " ","s","u","p","p","o","r","t"," ","s","e","n","i","o","r"," ","w","e",
      "l","l","-","b","e","i","n","g",".">>
Sample3_agency_name ==
    <<"H","e","a","l","t","h"," ","P","r","o","m","o","t","i","o","n"," ","B",
      "o","a","r","d">>
Sample3_description ==
    <<"G","r","a","n","t","s"," ","f","o","r"," ","m","e","n","t","a","l"," ",
      "h","e","a","l","t","h"," ","s","e","r","v","i","c","e","s"," ","a","n",
      "d"," ","p","r","e","v","e","n","t","i","v","e"," ","c","a","r","e"," ",
      "p","r","o","g","r","a","m","s",".">>
Sample4_agency_name ==
    <<"I","n","f","o","c","o","m","m"," ","M","e","d","i","a"," ","D","e","v",
      "e","l","o","p","m","e","n","t"," ","A","u","t","h","o","r","i","t",
      "y">>
Sample4_description ==
    <<"F","u","n","d","i","n","g"," ","f","o","r"," ","t","e","c","h","n","o",
      "l","o","g","y"," ","s","o","l","u","t","i","o","n","s"," ","t","h","a",
      "t"," ","i","m","p","r","o","v","e"," ","t","h","e"," ","l","i","v","e",
      "s"," ","o","f"," ","s","e","n","i","o","r","s",".">>

SAMPLE_GRANTS_DATA ==
    <<[title |-> "Community Care Innovation Fund",
       agency_name |-> Sample1_agency_name, acronym |-> <<"A","I","C">>,
       description |-> Sample1_description,
       funding_min |-> 80, funding_max |-> 150,
       duration_years |-> "2-3 years", status |-> "open"],
      [title |-> "Silver Generation Fund",
       agency_name |-> Sample2_agency_name, acronym |-> <<"M","S","F">>,
       description |-> Sample2_description,
       funding_min |-> 50, funding_max |-> 100,
       duration_years |-> "1-2 years", status |-> "open"],
      [title |-> "Mental Wellness Support Grant",
       agency_name |-> Sample3_agency_name, acronym |-> <<"H","P","B">>,
       description |-> Sample3_description,
       funding_min |-> 60, funding_max |-> 120,
       duration_years |-> "2 years", status |-> "open"],
      [title |-> "Technology for Seniors Grant",
       agency_name |-> Sample4_agency_name, acronym |-> <<"I","M","D","A">>,
       description |-> Sample4_description,
       funding_min |-> 40, funding_max |-> 80,
       duration_years |-> "1-2 years", status |-> "open"]>>

----------------------------------------------------------------------------
(* Command._load_sample_data, sync_grants.py 52-100 *)

\* lines 59-64: get_or_create by acronym
SampleAgency(ags, grant_data) ==
    LET found == AgencyByAcronym(ags, grant_data.acronym)
    IN  IF found = {}
        THEN [agencies |-> Append(ags, [name |-> grant_data.agency_name,
                                        acronym |-> grant_data.acronym]),
              agency |-> Len(ags) + 1]
        ELSE [agencies |-> ags, agency |-> TheOne(found)]

\* the defaults of update_or_create, lines 78-87
SampleDefaults(row, grant_data) ==
    [row EXCEPT !.description = grant_data.description,
                !.funding_min = Some(DecOfNat(grant_data.funding_min)),
                !.funding_max = Some(DecOfNat(grant_data.funding_max)),
                !.duration_years = Get(grant_data, "duration_years", ""),
                !.status = Get(grant_data, "status", "open"),
                !.match_score = 85]

\* variant: a row is created whether or not the lookup finds one
SampleGrantCreating(grs, grant_data, agency) ==
    [raised |-> FALSE, created |-> TRUE,
     grants |-> Append(grs, SampleDefaults(GrantRow([title |-> grant_data.title],
                                                    agency), grant_data))]

\* lines 75-88: update_or_create by (title, agency).  [raised, grants, created]
SampleGrant(grs, grant_data, agency) ==
    LET found == GrantByTitleAgency(grs, grant_data.title, agency)
        fresh == GrantRow([title |-> grant_data.title], agency)
    IN  IF Cardinality(found) > 1
        THEN [raised |-> TRUE, grants |-> grs, created |-> FALSE]
        ELSE IF found = {}
        THEN [raised |-> FALSE, created |-> TRUE,
              grants |-> Append(grs, SampleDefaults(fresh, grant_data))]
        ELSE [raised |-> FALSE, created |-> FALSE,
              grants |-> [grs EXCEPT ![TheOne(found)] =
                              SampleDefaults(grs[TheOne(found)], grant_data)]]

\* the loop, lines 57-93, from its k-th element on; st is [agencies, grants,
\* created_count, updated_count, raised]
RECURSIVE SampleLoop(_, _)
SampleLoop(st, k) ==
    IF k > Len(SAMPLE_GRANTS_DATA) \/ st.raised THEN st
    ELSE LET grant_data == SAMPLE_GRANTS_DATA[k]
             a == SampleAgency(st.agencies, grant_data)
             g == SampleGrant(st.grants, grant_data, a.agency)
         IN  SampleLoop(
                 [agencies |-> a.agencies,
                  grants |-> g.grants,
                  created_count |-> st.created_count + (IF ~g.raised /\ g.created THEN 1 ELSE 0),
                  updated_count |-> st.updated_count + (IF ~g.raised /\ ~g.created THEN 1 ELSE 0),
                  raised |-> g.raised],
                 k + 1)

\* sync_grants --sample: the whole command.  `sample` keeps what it reported
\* (lines 95-99), the sizes of the tables it started from, and whether the
\* command had run to its end before
LoadSample ==
    /\ LET end == SampleLoop([agencies |-> agencies, grants |-> grants,
                              created_count |-> 0, updated_count |-> 0,
                              raised |-> FALSE], 1)
       IN  /\ agencies' = end.agencies
           /\ grants' = end.grants
           /\ sample' = <<[raised |-> end.raised,
                           total |-> Len(SAMPLE_GRANTS_DATA),
                           created |-> end.created_count,
                           updated |-> end.updated_count,
                           grants_before |-> Len(grants),
                           agencies_before |-> Len(agencies),
                           again |-> sample # NoLoad /\ ~sample[1].raised]>>
    /\ UNCHANGED <<pc, grants_data, idx, created_count, updated_count, fetch,
                   before, last, history, runs, fvars, dvars, pvars,
                   projects, matches, applications, now, evals, served>>

----------------------------------------------------------------------------
(* views.calculate_matches_for_project, lines 172-209 *)

\* the truth value of a Decimal or float field: None and zero are false
Zero == Dec(<<>>, <<>>)
Truthy(v) == v # None /\ v[1] # Zero

\* the parts of the f-string of line 183, and the texts of lines 188-196
FocusReason(focus_area) == <<"Perfect alignment with ", focus_area, " programs">>
BudgetReason == <<"Budget range matches your requirements">>
KpiReason == <<"KPIs align with your service outcomes">>
TimelineReason == <<"Timeline aligns with project scope">>

\* variant: the letter case counts
FocusRuleExact(project, grant) ==
    Contains(grant.description, project.focus_area)

\* line 181
FocusRule(project, grant) ==
    Contains(Lower(grant.description), Lower(project.focus_area))

\* line 185
BudgetGuard(project, grant) ==
    Truthy(project.budget_required_min) /\ Truthy(grant.funding_min)

\* line 186 compares a number with None: TypeError.  The second comparison
\* is made only when the first is true
BudgetRaises(project, grant) ==
    /\ BudgetGuard(project, grant)
    /\ \/ project.budget_required_max = None
       \/ /\ DecLE(grant.funding_min[1], project.budget_required_max[1])
          /\ grant.funding_max = None

\* lines 185-186
BudgetRule(project, grant) ==
    /\ BudgetGuard(project, grant)
    /\ DecLE(grant.funding_min[1], project.budget_required_max[1])
    /\ DecLE(project.budget_required_min[1], grant.funding_max[1])

\* line 190
KpiRule(project, grant) == project.kpis # "" /\ grant.description # <<>>

\* line 194
TimelineRule(project, grant) ==
    project.duration_years # "" /\ grant.duration_years # ""

\* lines 181-199, from the score and the reasons the iteration starts with
Rules(project, grant, score, reasons) ==
    LET focus    == FocusRule(project, grant)
        budget   == BudgetRule(project, grant)
        kpi      == KpiRule(project, grant)
        timeline == TimelineRule(project, grant)
    IN  [score |-> score + (IF focus THEN 30 ELSE 0) + (IF budget THEN 25 ELSE 0)
                         + (IF kpi THEN 20 ELSE 0) + (IF timeline THEN 15 ELSE 0)
                         + 10,
         reasons |-> reasons
                     \o (IF focus THEN <<FocusReason(project.focus_area)>> ELSE <<>>)
                     \o (IF budget THEN <<BudgetReason>> ELSE <<>>)
                     \o (IF kpi THEN <<KpiReason>> ELSE <<>>)
                     \o (IF timeline THEN <<TimelineReason>> ELSE <<>>)]

NoScore == [score |-> 0, reasons |-> <<>>]

\* variant: the score starts from the number of matches stored
EvaluateFromStored(project, grant, prev) ==
    Rules(project, grant, Cardinality(BagToSet(matches)), <<>>)

\* one iteration, lines 177-199: score and reasons start from 0 and []
Evaluate(project, grant, prev) == Rules(project, grant, 0, <<>>)

Min(a, b) == IF a <= b THEN a ELSE b

\* variant: all the reasons are stored
TopReasonsAll(reasons) == reasons

\* variant: the last three reasons
TopReasonsLast(reasons) ==
    SubSeq(reasons, IF Len(reasons) > 3 THEN Len(reasons) - 2 ELSE 1, Len(reasons))

\* line 207: reasons[:3]
TopReasons(reasons) == SubSeq(reasons, 1, Min(3, Len(reasons)))

\* the GrantMatch rows of a pair, and how many there are
MatchRows(ms, p, g) == {m \in BagToSet(ms) : m.project = p /\ m.grant = g}
RECURSIVE Copies(_, _)
Copies(ms, rows) ==
    IF rows = {} THEN 0
    ELSE LET m == CHOOSE x \in rows : TRUE
         IN  CopiesIn(m, ms) + Copies(ms, rows \ {m})
MatchCount(ms, p, g) == Copies(ms, MatchRows(ms, p, g))

Replace(ms, old, new) == (ms (-) SetToBag({old})) (+) SetToBag({new})

\* variant: a row is created whether or not the pair has one
StoreMatchCreating(ms, p, g, e) ==
    ms (+) SetToBag({[project |-> p, grant |-> g,
                      match_score |-> Min(e.score, 100),
                      match_reasons |-> TopReasons(e.reasons),
                      is_saved |-> FALSE]})

\* lines 202-209: update_or_create on (project, grant)
StoreMatch(ms, p, g, e) ==
    IF MatchRows(ms, p, g) = {}
    THEN ms (+) SetToBag({[project |-> p, grant |-> g,
                           match_score |-> Min(e.score, 100),
                           match_reasons |-> TopReasons(e.reasons),
                           is_saved |-> FALSE]})
    ELSE LET old == TheOne(MatchRows(ms, p, g))
         IN  Replace(ms, old, [old EXCEPT !.match_score = Min(e.score, 100),
                                          !.match_reasons = TopReasons(e.reasons)])

\* variant: every evaluation is stored
AboveThresholdAlways(e) == TRUE

\* line 201
AboveThreshold(e) == e.score >= 70

\* the iterations of the loop over the grants gs, which do not raise;
\* st is [matches, evals, prev]
RECURSIVE MatchLoop(_, _, _, _, _)
MatchLoop(st, p, project, gs, view) ==
    IF gs = {} THEN st
    ELSE LET g == CHOOSE x \in gs : \A y \in gs : x <= y
             e == Evaluate(project, grants[g], st.prev)
         IN  MatchLoop(
                 [matches |-> IF AboveThreshold(e)
                              THEN StoreMatch(st.matches, p, g, e)
                              ELSE st.matches,
                  evals |-> IF history
                            THEN st.evals \cup {[project |-> project, grant |-> grants[g],
                                                 score |-> e.score, reasons |-> e.reasons,
                                                 view |-> view, at |-> now]}
                            ELSE st.evals,
                  prev |-> e],
                 p, project, gs \ {g}, view)

\* line 174
OpenGrants == {g \in 1..Len(grants) : grants[g].status = "open"}

\* the grants the loop has gone through when it ends.  The query set comes
\* in the order of Grant.Meta (models.py 50): higher match_score first, the
\* order among equal match_score left open here.  When no iteration raises
\* the loop goes through all open grants; otherwise it ends at the first
\* grant that raises, having gone through those that came before it
LoopsDone(project) ==
    LET raisers == {g \in OpenGrants : BudgetRaises(project, grants[g])}
    IN  IF raisers = {} THEN {[raised |-> FALSE, done |-> OpenGrants]}
        ELSE LET top == CHOOSE s \in {grants[g].match_score : g \in raisers} :
                            \A g \in raisers : grants[g].match_score <= s
                 sure == {g \in OpenGrants \ raisers : grants[g].match_score > top}
                 may  == {g \in OpenGrants \ raisers : grants[g].match_score = top}
             IN  {[raised |-> TRUE, done |-> sure \cup some] : some \in SUBSET may}

\* calculate_matches_for_project(project), called by view for the Project
\* row p holding the field values project, with the loop ending as run says
calculate_matches_for_project(p, project, run, view) ==
    LET end == MatchLoop([matches |-> matches, evals |-> evals, prev |-> NoScore],
                         p, project, run.done, view)
    IN  /\ matches' = end.matches
        /\ evals' = end.evals
        /\ served' = <<[view |-> view, project |-> p, raised |-> run.raised]>>

----------------------------------------------------------------------------
(* The requests of the views *)

MaxProjects == 1
MaxMatchRequests == 2
MaxRequests == 4

Users == {"u1", "u2"}

Focus_dementia == <<"d","e","m","e","n","t","i","a"," ","c","a","r","e">>
Focus_Dementia == <<"D","e","m","e","n","t","i","a"," ","C","a","r","e">>
Focus_robotics == <<"r","o","b","o","t","i","c","s">>
Focus_seniors  == <<"s","e","n","i","o","r","s">>

\* the POST data of project_create that the scorer reads, by a key of the
\* model; a field that is left empty in the form is ""
ProjectForm ==
    [f1 |-> [focus_area |-> Focus_dementia, budget_required_min |-> <<"5","0">>,
             budget_required_max |-> <<"1","0","0">>, kpis |-> "reach",
             duration_years |-> "2 years"],
     f2 |-> [focus_area |-> Focus_Dementia, budget_required_min |-> <<"0">>,
             budget_required_max |-> <<"1","0","0">>, kpis |-> "reach",
             duration_years |-> ""],
     f3 |-> [focus_area |-> <<>>, budget_required_min |-> <<>>,
             budget_required_max |-> <<>>, kpis |-> "reach",
             duration_years |-> "2 years"],
     f4 |-> [focus_area |-> Focus_robotics, budget_required_min |-> <<"5","0">>,
             budget_required_max |-> <<>>, kpis |-> "",
             duration_years |-> "2 years"],
     f5 |-> [focus_area |-> Focus_robotics, budget_required_min |-> <<"2","0","0">>,
             budget_required_max |-> <<"3","0","0">>, kpis |-> "",
             duration_years |-> ""],
     f6 |-> [focus_area |-> Focus_seniors, budget_required_min |-> <<"1","0","0">>,
             budget_required_max |-> <<"1","0","0">>, kpis |-> "",
             duration_years |-> "2 years"],
     f7 |-> [focus_area |-> Focus_seniors, budget_required_min |-> <<"a","b","c">>,
             budget_required_max |-> <<"1","0","0">>, kpis |-> "",
             duration_years |-> ""],
     f8 |-> [focus_area |-> Focus_dementia, budget_required_min |-> <<"5","0">>,
             budget_required_max |-> <<"1","0","0">>, kpis |-> "reach",
             duration_years |-> ""]]
ProjectForms == DOMAIN ProjectForm

\* float(text): the texts of the forms are digits with at most one point,
\* or text that float() rejects
FloatOk(text) == DecimalOk(text)
Float(text) == Some(Decimal(text))

\* lines 121-122: float(budget_min) if budget_min else None
BudgetField(text) == IF text # <<>> THEN Float(text) ELSE None
BudgetFieldRaises(text) == text # <<>> /\ ~FloatOk(text)

\* lines 116-133: the Project row
ProjectRow(user, key) ==
    LET post == ProjectForm[key]
    IN  [user |-> user,
         title |-> key,
         focus_area |-> post.focus_area,
         budget_required_min |-> BudgetField(post.budget_required_min),
         budget_required_max |-> BudgetField(post.budget_required_max),
         duration_years |-> post.duration_years,
         kpis |-> post.kpis]

\* the grants that requests name: two that exist once the sample is loaded
\* and one that never does
GrantIds == {1, 2, Len(SAMPLE_GRANTS_DATA) + 1}

\* a request is served at the time now, and time passes
Tick(most) == now <= most /\ now' = now + 1

\* project_create, POST, lines 98-136.  ValueError of float() ends the
\* request before the row is created; an exception of the scorer ends it
\* with the row, and the matches written so far, in place
project_create(user, key) ==
    /\ Len(projects) < MaxProjects
    /\ LET post == ProjectForm[key]
       IN  IF BudgetFieldRaises(post.budget_required_min)
              \/ BudgetFieldRaises(post.budget_required_max)
           THEN /\ served' = <<[view |-> "project_create", project |-> 0,
                                 raised |-> TRUE]>>
                /\ UNCHANGED <<projects, matches, evals>>
           ELSE /\ projects' = Append(projects, ProjectRow(user, key))
                /\ \E run \in LoopsDone(ProjectRow(user, key)) :
                     calculate_matches_for_project(
                         Len(projects) + 1, ProjectRow(user, key), run,
                         "project_create")
    /\ UNCHANGED <<svars, fvars, dvars, pvars, applications, now, sample>>

ProjectCreate == \E user \in Users, key \in ProjectForms : project_create(user, key)

\* calculate_matches_for_project called again for a stored project
Recalculate ==
    /\ Tick(MaxMatchRequests)
    /\ \E p \in 1..Len(projects) :
         \E run \in LoopsDone(projects[p]) :
             calculate_matches_for_project(p, projects[p], run, "calculate")
    /\ UNCHANGED <<svars, fvars, dvars, pvars, projects, applications, sample>>

\* Project.objects.filter(user=...).first() under Project.Meta ordering
\* (models.py 109): the project created last; 0 when there is none
FirstProject(user) ==
    LET own == {p \in 1..Len(projects) : projects[p].user = user}
    IN  IF own = {} THEN 0 ELSE CHOOSE p \in own : \A q \in own : q <= p

\* lines 340-346: get_or_create, then the flag is inverted and saved
ToggledMatches(ms, p, g) ==
    IF MatchRows(ms, p, g) = {}
    THEN ms (+) SetToBag({[project |-> p, grant |-> g,
                           match_score |-> grants[g].match_score,
                           match_reasons |-> <<>>,
                           is_saved |-> TRUE]})
    ELSE LET old == TheOne(MatchRows(ms, p, g))
         IN  Replace(ms, old, [old EXCEPT !.is_saved = ~old.is_saved])

\* toggle_save_grant, lines 333-348: 404 when the grant does not exist,
\* nothing when the user has no project, MultipleObjectsReturned when the
\* pair has more than one row
toggle_save_grant(user, grant_id) ==
    /\ Tick(MaxMatchRequests)
    /\ IF grant_id \notin 1..Len(grants) \/ FirstProject(user) = 0
          \/ MatchCount(matches, FirstProject(user), grant_id) > 1
       THEN UNCHANGED matches
       ELSE matches' = ToggledMatches(matches, FirstProject(user), grant_id)
    /\ served' = <<[view |-> "toggle_save_grant", project |-> FirstProject(user),
                     raised |-> FALSE]>>
    /\ UNCHANGED <<svars, fvars, dvars, pvars, projects, applications, sample, evals>>

ToggleSave ==
    \E user \in Users, grant_id \in GrantIds : toggle_save_grant(user, grant_id)

----------------------------------------------------------------------------
(* The application views, views.py 378-456 *)

MaxApplications == 2

ApplicationsOf(apps, user, grant, project) ==
    {a \in 1..Len(apps) : /\ apps[a].user = user
                          /\ apps[a].grant = grant
                          /\ apps[a].project = project}

\* the row both views create: models.py 146-147 for the fields not given
NewApplication(user, project, grant) ==
    [user |-> user, project |-> project, grant |-> grant,
     status |-> "in_progress", submitted_at |-> None]

\* lines 398-402
Restarted(app) ==
    IF app.status # "in_progress" THEN [app EXCEPT !.status = "in_progress"] ELSE app

\* start_application, lines 379-404: 404 when the grant does not exist, a
\* redirect when the user has no project, MultipleObjectsReturned when
\* get_or_create finds more than one row
start_application(user, grant_id) ==
    /\ Tick(MaxRequests)
    /\ LET project == FirstProject(user)
           found == ApplicationsOf(applications, user, grant_id, project)
       IN  IF grant_id \notin 1..Len(grants) \/ project = 0 \/ Cardinality(found) > 1
           THEN UNCHANGED applications
           ELSE IF found = {}
           THEN /\ Len(applications) < MaxApplications
                /\ applications' = Append(applications,
                                          NewApplication(user, project, grant_id))
           ELSE applications' = [applications EXCEPT ![TheOne(found)] =
                                     Restarted(applications[TheOne(found)])]
    /\ UNCHANGED <<svars, fvars, dvars, pvars, projects, matches, sample, evals, served>>

\* application_create, POST, lines 408-424: 404 when the grant does not
\* exist or the project is not one of the user's
application_create(user, grant_id, project_id) ==
    /\ Tick(MaxRequests)
    /\ IF \/ grant_id \notin 1..Len(grants)
          \/ project_id \notin 1..Len(projects)
          \/ projects[project_id].user # user
       THEN UNCHANGED applications
       ELSE /\ Len(applications) < MaxApplications
            /\ applications' = Append(applications,
                                      NewApplication(user, project_id, grant_id))
    /\ UNCHANGED <<svars, fvars, dvars, pvars, projects, matches, sample, evals, served>>

\* line 444
valid_statuses == {"in_progress", "submitted", "approved", "rejected"}

\* variant: the time of submission is not recorded
Moved_Unstamped(app, new_status) == [app EXCEPT !.status = new_status]

\* variant: every move to submitted records the time
Moved_Restamped(app, new_status) ==
    [app EXCEPT !.status = new_status,
                !.submitted_at = IF new_status = "submitted"
                                 THEN Some(now) ELSE app.submitted_at]

\* lines 448-452
Moved(app, new_status) ==
    [app EXCEPT !.status = new_status,
                !.submitted_at = IF new_status = "submitted" /\ app.submitted_at = None
                                 THEN Some(now) ELSE app.submitted_at]

\* variant: the application is not looked up among the user's own
update_application_statusOfAnyone(user, method, application_id, new_status) ==
    /\ Tick(MaxRequests)
    /\ IF \/ method # "POST"
          \/ application_id \notin 1..Len(applications)
          \/ new_status \notin valid_statuses
       THEN UNCHANGED applications
       ELSE applications' = [applications EXCEPT ![application_id] =
                                 [applications[application_id]
                                    EXCEPT !.status = new_status,
                                           !.submitted_at =
                                               IF new_status = "submitted"
                                                  /\ @ = None
                                               THEN Some(now) ELSE @]]
    /\ UNCHANGED <<svars, fvars, dvars, pvars, projects, matches, sample, evals, served>>

\* update_application_status, lines 435-456: 405 unless POST, 404 unless the
\* application is the user's, 400 unless the status is a valid one
update_application_status(user, method, application_id, new_status) ==
    /\ Tick(MaxRequests)
    /\ IF \/ method # "POST"
          \/ application_id \notin 1..Len(applications)
          \/ applications[application_id].user # user
          \/ new_status \notin valid_statuses
       THEN UNCHANGED applications
       ELSE applications' = [applications EXCEPT ![application_id] =
                                 Moved(applications[application_id], new_status)]
    /\ UNCHANGED <<svars, fvars, dvars, pvars, projects, matches, sample, evals, served>>

\* the requests made of update_application_status: the statuses and one
\* word that is not a status, POST and one GET
StatusWordsPosted == valid_statuses \cup {"withdrawn"}
StatusRequests ==
    {[method |-> "POST", status |-> w] : w \in StatusWordsPosted}
    \cup {[method |-> "GET", status |-> "submitted"]}

\* the grants that the application requests name: one that exists once the
\* sample is loaded and one that never does
AppliedGrantIds == {1, Len(SAMPLE_GRANTS_DATA) + 1}

StartApplication ==
    \E user \in Users, grant_id \in AppliedGrantIds : start_application(user, grant_id)

ApplicationCreate ==
    \E user \in Users, grant_id \in AppliedGrantIds,
       project_id \in 1..(Len(projects) + 1) :
        application_create(user, grant_id, project_id)

UpdateApplicationStatus ==
    \E user \in Users, application_id \in 1..(Len(applications) + 1),
       req \in StatusRequests :
        update_application_status(user, req.method, application_id, req.status)

\* project_create with the form f3
ProjectCreatePlain == \E user \in Users : project_create(user, "f3")

----------------------------------------------------------------------------
(* The specifications of the views *)

ViewsInit == SyncInit /\ history = FALSE /\ FundingIdle /\ DateIdle /\ StatusIdle
        /\ NameIdle /\ AppInit

\* sample loads, project creations, match computations and save toggles
MatchNext == \/ LoadSample
             \/ ProjectCreate
             \/ Recalculate
             \/ ToggleSave

SpecMatch == ViewsInit /\ [][MatchNext]_vars

\* the same requests, observed with every evaluation of the scorer kept
ScorerInit == SyncInit /\ history = TRUE /\ FundingIdle /\ DateIdle /\ StatusIdle
        /\ NameIdle /\ AppInit

ScorerNext == \/ LoadSample
              \/ ProjectCreate
              \/ Recalculate

SpecScorer == ScorerInit /\ [][ScorerNext]_vars

\* sample loads, project creations and the application views
ApplyNext == \/ LoadSample
             \/ ProjectCreatePlain
             \/ StartApplication
             \/ ApplicationCreate
             \/ UpdateApplicationStatus

SpecApply == ViewsInit /\ [][ApplyNext]_vars

\* syncs and sample loads: the two commands of sync_grants.py, one after
\* the other (handle, lines 26-50)
LoadSampleWhenIdle == pc = "idle" /\ LoadSample

StoreNext == \/ StartSync
             \/ ApiFailed
             \/ Scrape
             \/ SyncRecord
             \/ FinishSync
             \/ ReportError
             \/ LoadSampleWhenIdle

SpecStore == Init /\ [][StoreNext]_vars

----------------------------------------------------------------------------
(* Properties of the sync *)

InLoop == pc = "sync" /\ idx <= Len(grants_data)
AtReturn == pc = "sync" /\ idx > Len(grants_data)

\* C1: a sync that runs right after a completed sync, on the same fetched
\* records, completes, counts created = 0 and updated = total, and leaves
\* the Agency and Grant tables as the first run left them.
C1_SecondRunIdempotent ==
    ( /\ last # NoRun
      /\ last[1].outcome = "completed"
      /\ pc \in {"sync", "raised"}
      /\ grants_data = last[1].input[1]
      /\ before.tables = last[1].tables )
    => /\ pc # "raised"
       /\ AtReturn => /\ created_count = 0
                      /\ updated_count = Len(grants_data)
                      /\ Tables = last[1].tables[1]

\* the Agency rows (after the step) that the record names
C2_NamedAgencies(r) ==
    IF Get(r, "agency_code", <<>>) # <<>>
    THEN {a \in 1..Len(agencies') : agencies'[a].acronym = Upper(r.agency_code)}
    ELSE {a \in 1..Len(agencies') :
              agencies'[a].name = Get(r, "agency_name", Name_Unknown)}

\* the Grant rows the record's key selects
C2_Target(r) ==
    IF Get(r, "external_id", "") # ""
    THEN {g \in 1..Len(grants) : grants[g].external_id = r.external_id}
    ELSE {g \in 1..Len(grants) : /\ grants[g].title = r.title
                                 /\ grants[g].agency \in C2_NamedAgencies(r)}

C2_Holds(row, r) ==
    /\ row.title = r.title
    /\ row.external_id = Get(r, "external_id", "")
    /\ row.agency \in C2_NamedAgencies(r)
    /\ row.funding_min = r.funding_min
    /\ row.funding_max = r.funding_max
    /\ row.status = Get(r, "status", "open")

\* C2: each record of the loop selects its Grant by external_id when it has
\* one and by (title, agency) otherwise; when the key selects no row a row
\* holding the record is added, and otherwise a selected row is brought to
\* the record's content and no row is added.
C2_UpsertByKey ==
    [][ InLoop =>
          LET r == grants_data[idx]
          IN  IF C2_Target(r) = {}
              THEN /\ Len(grants') = Len(grants) + 1
                   /\ C2_Holds(grants'[Len(grants')], r)
                   /\ \A g \in 1..Len(grants) : grants'[g] = grants[g]
              ELSE /\ Len(grants') = Len(grants)
                   /\ \E g \in C2_Target(r) :
                        /\ C2_Holds(grants'[g], r)
                        /\ \A h \in 1..Len(grants) :
                             h # g => grants'[h] = grants[h] ]_vars

\* C3: when the loop has ended, created + updated is the number of fetched
\* records (the total returned), and the Grant table has grown by created.
C3_CountsAddUp ==
    AtReturn => /\ created_count + updated_count = Len(grants_data)
                /\ Len(grants) = before.grant_rows + created_count

C3_Witness ==
    /\ AtReturn
    /\ created_count >= 1
    /\ updated_count >= 1
    /\ before.grant_rows >= 1

\* C4: a record whose agency_code is the acronym of a stored Agency with
\* another name renames that Agency and adds no Agency row.
C4_AgencyRenamed ==
    [][ InLoop =>
          LET r == grants_data[idx]
          IN  \A a \in 1..Len(agencies) :
                ( /\ Get(r, "agency_code", <<>>) # <<>>
                  /\ agencies[a].acronym = r.agency_code
                  /\ agencies[a].name # r.agency_name )
                => /\ Len(agencies') = Len(agencies)
                   /\ agencies'[a].name = r.agency_name
                   /\ agencies'[a].acronym = agencies[a].acronym
                   /\ \A b \in 1..Len(agencies) :
                        b # a => agencies'[b] = agencies[b] ]_vars

\* two records of one sync name the same acronym with different names:
\* after the second the one Agency row carries the second name
C4_Witness ==
    /\ pc = "sync"
    /\ idx = 3
    /\ Get(grants_data[1], "agency_code", <<>>) = Code_AIC
    /\ Get(grants_data[2], "agency_code", <<>>) = Code_AIC
    /\ grants_data[1].agency_name # grants_data[2].agency_name
    /\ Len(agencies) = 1
    /\ agencies[1].acronym = Code_AIC
    /\ agencies[1].name = grants_data[2].agency_name

ApiErrorKinds == {"network_error", "http_error", "malformed_json"}

\* C5: the scraping path runs exactly when the API path has failed, a
\* network error, an HTTP error status and malformed JSON are failures, the
\* fetch always hands a list to the sync, and the list is empty when both
\* paths fail.
C5_FallbackOnlyOnFailure ==
    /\ pc \in {"api_failed", "scrape"} => fetch.api = "failed" /\ ~fetch.scraped
    /\ fetch.scraped => fetch.api = "failed"
    /\ (pc = "sync" /\ fetch.api = "failed") => fetch.scraped
    /\ (fetch.apiResp # <<>> /\ fetch.apiResp[1].kind \in ApiErrorKinds)
           => fetch.api = "failed"
    /\ fetch # NoFetch => pc \in {"api_failed", "scrape", "sync"}
    /\ (fetch.scraped /\ fetch.htmlResp[1].kind = "error") => grants_data = <<>>

C5_Witness ==
    /\ pc = "sync"
    /\ fetch.api = "failed"
    /\ fetch.scraped
    /\ fetch.htmlResp[1].kind = "error"
    /\ grants_data = <<>>

\* an API item that the path keeps and whose fields can all be processed
C6_ApiItemWellFormed(m) == ApiItemKept(m) /\ ~ApiItemFunding(m).raised

\* an HTML item with a title whose fields can all be processed
C6_HtmlItemWellFormed(item) == _parse_grant_item(item).kind = "ok"

InList(x, list) == \E j \in 1..Len(list) : list[j] = x

\* C6: on the API path and on the scraping path alike, every well-formed
\* item of the response is in the list the path returns, whatever the other
\* items of the response are.
C6_MalformedItemSkipped ==
    /\ (fetch.apiResp # <<>> /\ fetch.apiResp[1].kind = "ok")
         => \A i \in 1..Len(fetch.apiResp[1].items) :
               LET m == ApiItem[fetch.apiResp[1].items[i]]
               IN  C6_ApiItemWellFormed(m) => InList(ApiItemRecord(m), grants_data)
    /\ (fetch.htmlResp # <<>> /\ fetch.htmlResp[1].kind = "ok")
         => \A i \in 1..Len(fetch.htmlResp[1].items) :
               LET item == HtmlItem[fetch.htmlResp[1].items[i]]
               IN  C6_HtmlItemWellFormed(item)
                     => InList(_parse_grant_item(item).record, grants_data)

\* C7: every stored Grant with both bounds has funding_min <= funding_max.
C7_FundingOrdered ==
    \A g \in 1..Len(grants) :
        (grants[g].funding_min # None /\ grants[g].funding_max # None)
        => DecLE(grants[g].funding_min[1], grants[g].funding_max[1])

----------------------------------------------------------------------------
(* Properties of the funding parser *)

Parsed == fresult # NotCalled
Result == fresult[1]
\* the numeric tokens of the text, commas stripped
Tokens == FindNumbers(StripCommas(Strip(FundingText)))

\* the amount n as a Decimal, and n / 1000 as a Decimal
AmountOf(n) == Dec(NatDigits(n), <<>>)
ThousandthOf(n) ==
    Dec(NatDigits(n \div 1000), <<(n % 1000) \div 100, (n % 100) \div 10, n % 10>>)
\* the amount in thousands when it is 1000 or more, else the amount
InThousands(n) == IF n >= 1000 THEN ThousandthOf(n) ELSE AmountOf(n)

\* C8: a non-empty text with neither "up to" nor a range indicator gives
\* (None, v), v the first numeric token, or (None, None) when it has no
\* numeric token; and every text gives a pair.
C8_SingleAmount ==
    Parsed =>
      /\ ~Result.raised
      /\ (FundingText # <<>> /\ ~HasUpTo(FundingText) /\ ~HasRange(FundingText))
           => /\ Result.min = None
              /\ Result.max = IF Tokens = <<>> THEN None
                              ELSE Some(Decimal(Tokens[1]))

\* C9: "Up to $X", in any letter case and with thousands separators in X,
\* gives (None, X / 1000) when X >= 1000 and (None, X) when X < 1000.
C9_UpTo ==
    Parsed =>
      \A u \in UpToWords : \A n \in Numerals :
          fpieces = <<u, Dollar \o n.chars>>
          => Result = Returned(None, Some(InThousands(n.amount)))

C9_Witness ==
    /\ Parsed
    /\ fpieces = <<<<"U","P"," ","T","O"," ">>,
                   <<"$","2","0",",","0","0","0",".","0","0">>>>
    /\ Result = Returned(None, Some(AmountOf(20)))

\* a token's value divided by 1000 exactly when it is 1000 or more
C10_Normalised(tok) ==
    IF Len(Decimal(tok).ip) >= 4 THEN DivBy1000(Decimal(tok)) ELSE Decimal(tok)

C10_RangeText == Parsed /\ HasRange(FundingText) /\ ~HasUpTo(FundingText)

C10_TwoTokens ==
    (C10_RangeText /\ Len(Tokens) >= 2)
    => Result = Returned(Some(C10_Normalised(Tokens[1])),
                         Some(C10_Normalised(Tokens[2])))

C10_SmallAmounts ==
    Parsed =>
      \A a \in Numerals : \A b \in Numerals :
          ( /\ a.amount < 1000
            /\ b.amount < 1000
            /\ fpieces = <<Dollar \o a.chars, Dash, Dollar \o b.chars>> )
          => Result = Returned(Some(AmountOf(a.amount)), Some(AmountOf(b.amount)))

\* C10 as stated: with a range indicator and no "up to", two or more tokens
\* give (first, second), each divided by 1000 exactly when it is >= 1000;
\* exactly one token v gives (v, v); "$A - $B" with A, B < 1000 gives (A, B).
C10_RangeAsStated ==
    /\ C10_TwoTokens
    /\ C10_SmallAmounts
    /\ (C10_RangeText /\ Len(Tokens) = 1)
         => Result = Returned(Some(Decimal(Tokens[1])), Some(Decimal(Tokens[1])))

\* C10 (amended): as stated, except that the single token v is divided by
\* 1000 when it is >= 1000, as the tokens of a two-number range are.
C10_Range ==
    /\ C10_TwoTokens
    /\ C10_SmallAmounts
    /\ (C10_RangeText /\ Len(Tokens) = 1)
         => Result = Returned(Some(C10_Normalised(Tokens[1])),
                              Some(C10_Normalised(Tokens[1])))

C10_Witness ==
    /\ Parsed
    /\ fpieces = <<<<"2",",","0","0","0">>, Dash>>
    /\ Result = Returned(Some(AmountOf(2)), Some(AmountOf(2)))

----------------------------------------------------------------------------
(* Properties of the date parser *)

DateParsed == dresult # NotCalled
DateResult == dresult[1]

C11_StatusKeywords == {<<"o","p","e","n">>,
                       <<"c","l","o","s","e","d">>,
                       <<"a","p","p","l","i","c","a","t","i","o","n","s">>,
                       <<"t","b","a">>,
                       <<"n","/","a">>}
C11_HasKeyword == \E w \in C11_StatusKeywords : Contains(Lower(DateText), w)
C11_HasDate == \E i \in 1..Len(dpieces) : dpieces[i] \in DateWords

\* C11: for every date text that contains one of the status keywords "open",
\* "closed", "applications", "tba" or "n/a" in any letter case, _parse_date
\* returns None and has tried no date format, also when the rest of the
\* text is a valid date.
C11_KeywordGivesNone ==
    (DateParsed /\ C11_HasKeyword)
        => (DateResult.value = None /\ ~DateResult.tried)

\* a text made of a valid date and a status keyword has been parsed
C11_Witness ==
    /\ DateParsed
    /\ C11_HasKeyword
    /\ C11_HasDate
    /\ dpieces[1] = Dp_Iso
    /\ DateResult.value = None

----------------------------------------------------------------------------
(* Properties of the matches *)

MatchSet == BagToSet(matches)
Computing(req) == req # NoRequest /\ req[1].view \in {"project_create", "calculate"}
HasReason(reasons, r) == \E i \in 1..Len(reasons) : reasons[i] = r

\* C12: every GrantMatch has a match_score from 0 to 100 and at most 3
\* match_reasons, whatever projects were created, matches computed and
\* grants saved or unsaved.
C12_ScoreAndReasonsBounded ==
    \A m \in MatchSet : m.match_score \in 0..100 /\ Len(m.match_reasons) <= 3

\* a saved match of a pair for which all four rules fire
C12_Witness ==
    \E m \in MatchSet : /\ m.match_score = 100
                        /\ Len(m.match_reasons) = 3
                        /\ m.is_saved
                        /\ projects[m.project].title = "f1"

AllBoundsSet(e) ==
    /\ e.project.budget_required_min # None /\ e.project.budget_required_max # None
    /\ e.grant.funding_min # None /\ e.grant.funding_max # None

C13_Overlap(e) ==
    /\ DecLE(e.grant.funding_min[1], e.project.budget_required_max[1])
    /\ DecLE(e.project.budget_required_min[1], e.grant.funding_max[1])

\* C13: an evaluation has the budget reason (and its 25 points) exactly when
\* grant.funding_min <= project.budget_required_max and grant.funding_max >=
\* project.budget_required_min, for all values of the four bounds, zero
\* included.
C13_BudgetRuleIsOverlap ==
    \A e \in evals :
        AllBoundsSet(e) => (HasReason(e.reasons, BudgetReason) <=> C13_Overlap(e))

\* the points of the rules other than the focus rule, by the reasons given
C14_OtherPoints(e) ==
    (IF HasReason(e.reasons, BudgetReason) THEN 25 ELSE 0)
    + (IF HasReason(e.reasons, KpiReason) THEN 20 ELSE 0)
    + (IF HasReason(e.reasons, TimelineReason) THEN 15 ELSE 0)
    + 10

\* sub occurs in text when the letter case is ignored
C14_Occurs(text, sub) ==
    \E i \in 1..(Len(text) - Len(sub) + 1) :
        \A j \in 1..Len(sub) : LowerChar(text[i + j - 1]) = LowerChar(sub[j])

\* C14: an evaluation has 30 points for the focus area and the reason that
\* names the focus area exactly when the focus-area text of the project
\* occurs in the description of the grant, letter case ignored.
C14_FocusRuleIsOccurrence ==
    \A e \in evals :
        LET occurs == C14_Occurs(e.grant.description, e.project.focus_area)
        IN  /\ occurs <=> HasReason(e.reasons, FocusReason(e.project.focus_area))
            /\ e.score = C14_OtherPoints(e) + (IF occurs THEN 30 ELSE 0)

\* "dementia care" and "Dementia Care" against the description of the first
\* sample grant, and a focus area that does not occur in it
C14_Witness ==
    /\ \E e \in evals : /\ e.project.focus_area = Focus_dementia
                        /\ e.grant.description = Sample1_description
                        /\ e.score = 100
                        /\ e.reasons[1] = FocusReason(Focus_dementia)
    /\ \E e \in evals : /\ e.project.focus_area = Focus_dementia
                        /\ ~HasReason(e.reasons, FocusReason(Focus_dementia))

\* the scorer stores nothing for the pair: it raises, or the score is
\* below 70
C15_Below(project, grant) ==
    BudgetRaises(project, grant) \/ Rules(project, grant, 0, <<>>).score < 70

Rows(ms, p, g) == [m \in MatchRows(ms, p, g) |-> CopiesIn(m, ms)]

\* C15: a run of calculate_matches_for_project changes the GrantMatch rows
\* of a pair only when the score of the pair is at least 70; for a pair
\* whose score is below 70 the rows, an existing match included, are
\* after the run what they were before it.
C15_BelowThresholdUntouched ==
    [][ Computing(served') =>
          \A p \in 1..Len(projects'), g \in 1..Len(grants) :
              (Rows(matches', p, g) # Rows(matches, p, g))
                  => (p = served'[1].project /\ ~C15_Below(projects'[p], grants[g])) ]_vars

\* a match made by toggle_save_grant for a pair whose score is below 70 is
\* there after a run of the scorer for its project
C15_Witness ==
    /\ Computing(served)
    /\ served[1].view = "calculate"
    /\ \E m \in MatchSet : /\ m.project = served[1].project
                           /\ m.is_saved
                           /\ C15_Below(projects[m.project], grants[m.grant])

C16_OnePerPair ==
    /\ \A m \in MatchSet : CopiesIn(m, matches) = 1
    /\ \A m1, m2 \in MatchSet :
           (m1.project = m2.project /\ m1.grant = m2.grant) => m1 = m2

C16_Recomputed ==
    Computing(served') =>
        \A g \in 1..Len(grants) :
            LET p == served'[1].project
            IN  (p # 0 /\ MatchRows(matches, p, g) # {}) =>
                    \E old \in MatchRows(matches, p, g), new \in MatchRows(matches', p, g) :
                        /\ new.is_saved = old.is_saved
                        /\ \/ new = old
                           \/ LET e == Rules(projects[p], grants[g], 0, <<>>)
                              IN  /\ new.match_score = Min(e.score, 100)
                                  /\ new.match_reasons = SubSeq(e.reasons, 1, Min(3, Len(e.reasons)))
                        /\ (~served'[1].raised /\ ~C15_Below(projects[p], grants[g]))
                              => new.match_score = Min(Rules(projects[p], grants[g], 0, <<>>).score, 100)

\* C16: there is at most one GrantMatch per (project, grant) pair, and a
\* run of the scorer over a pair that has a match leaves one match for the
\* pair, with the score and reasons of the run and is_saved as it was.
C16_OneMatchPerPair == []C16_OnePerPair /\ [][C16_Recomputed]_vars

\* a match that was made by toggle_save_grant (saved, from the score of the
\* grant) now holds the score and reasons of a later run of the scorer
C16_Witness ==
    /\ Computing(served)
    /\ served[1].view = "calculate"
    /\ \E m \in MatchSet : /\ m.project = served[1].project
                           /\ m.is_saved
                           /\ m.match_score = 100
                           /\ Len(m.match_reasons) = 3

----------------------------------------------------------------------------
(* Properties of the applications *)

\* C18: an Application whose status is approved or rejected keeps that
\* status in every step.
C18_TerminalStays ==
    [][ \A a \in 1..Len(applications) :
            applications[a].status \in {"approved", "rejected"}
                => applications'[a].status = applications[a].status ]_vars

C19_SubmittedStamped ==
    \A a \in 1..Len(applications) :
        applications[a].status = "submitted" => applications[a].submitted_at # None

C19_CreatedInProgress ==
    /\ Len(applications') >= Len(applications)
    /\ \A a \in (Len(applications) + 1)..Len(applications') :
           applications'[a].status = "in_progress"

\* C19: every Application is created with status in_progress, and an
\* Application whose status is submitted has submitted_at set.
C19_Lifecycle == []C19_SubmittedStamped /\ [][C19_CreatedInProgress]_vars

\* an application that was moved to submitted
C19_Witness ==
    \E a \in 1..Len(applications) :
        /\ applications[a].status = "submitted"
        /\ applications[a].submitted_at # None

----------------------------------------------------------------------------
(* Properties of the sample load *)

\* C20: sync_grants --sample into empty tables creates 4 Grants and reports
\* 4 created, 0 updated of 4; run again it reports 0 created, 4 updated and
\* leaves the numbers of Grants and Agencies as they were.
C20_SampleLoad ==
    sample # NoLoad =>
        LET r == sample[1]
        IN  /\ ~r.raised
            /\ r.total = 4
            /\ (r.grants_before = 0 /\ r.agencies_before = 0)
                   => (r.created = 4 /\ r.updated = 0 /\ Len(grants) = 4)
            /\ r.again => /\ r.created = 0 /\ r.updated = 4
                          /\ Len(grants) = r.grants_before
                          /\ Len(agencies) = r.agencies_before

\* the sample was loaded a second time
C20_Witness ==
    /\ sample # NoLoad
    /\ sample[1].again
    /\ sample[1].updated = 4
    /\ Len(grants) = 4

----------------------------------------------------------------------------
(* Properties of the status of API records *)

Appended == grant_status # NotCalled /\ grant_status[1].kind = "appended"

C21_Code == IF "status" \in DOMAIN grant_meta THEN <<grant_meta.status>> ELSE <<>>

C21_SaysClosed == C14_Occurs(grant_meta.closing_dates, <<"c","l","o","s","e","d">>)

\* C21 as stated: the status of an appended record is open for the code
\* green, closed for the code red, and open for every other code and for no
\* code, whatever the other fields hold.
C21_StatusFromCode ==
    Appended =>
        grant_status[1].status = (IF C21_Code = <<"red">> THEN "closed" ELSE "open")

\* C21: the status of an appended record is open for the code green and
\* closed for the code red; for every other code and for no code it is
\* closed when the closing dates hold the word "closed" in any letter case,
\* and open otherwise.
C21_StatusFromCodeAndDates ==
    Appended =>
        grant_status[1].status =
            (IF C21_Code = <<"green">> THEN "open"
             ELSE IF C21_Code = <<"red">> THEN "closed"
             ELSE IF C21_SaysClosed THEN "closed"
             ELSE "open")

\* a record with no code, or with the code amber, with closing
\* dates that say closed
C21_Witness ==
    /\ Appended
    /\ C21_Code \in {<<>>, <<"amber">>}
    /\ C21_SaysClosed
    /\ grant_status[1].status = "closed"

----------------------------------------------------------------------------
(* Properties of the agency step *)

\* the step made a new Agency
NewAgency ==
    /\ nresult # NotCalled
    /\ ~nresult[1].step.raised
    /\ Len(nresult[1].step.agencies) = Len(nresult[1].stored) + 1

NewAcronym == nresult[1].step.agencies[nresult[1].step.agency].acronym

C22_Words == Split(AgencyName)

\* the upper-cased first letters of the first three words, or of all words
\* when there are fewer
C22_Initials ==
    [i \in 1..Min(3, Len(C22_Words)) |-> UpperChar(C22_Words[i][1])]

\* the upper-cased first three characters of the name
C22_Head ==
    [i \in 1..Min(3, Len(AgencyName)) |-> UpperChar(AgencyName[i])]

\* C22 as stated: the acronym of an Agency made for a record without
\* agency_code is the upper-cased first letters of the first up-to-three
\* words of the name, for one, two, three or more words.
C22_AcronymIsInitials == NewAgency => NewAcronym = C22_Initials

\* C22: the acronym of an Agency made for a record without agency_code is
\* the upper-cased first letters of the first three words of the name when
\* the name has two or more words, and the upper-cased first three
\* characters of the name when it has fewer.
C22_AcronymOfName ==
    NewAgency =>
        NewAcronym = (IF Len(C22_Words) >= 2 THEN C22_Initials ELSE C22_Head)

\* a new Agency for a name of one word of more than three letters
C22_Witness ==
    /\ NewAgency
    /\ Len(C22_Words) = 1
    /\ Len(C22_Words[1]) > 3
    /\ Len(NewAcronym) = 3

----------------------------------------------------------------------------
(* Properties of the Grant table under syncs and sample loads *)

\* C23: no two rows of the Grant table have the same title and the same
\* agency, whichever path delivered the records of each sync.
C23_NoDuplicateGrants ==
    \A i, j \in 1..Len(grants) :
        (grants[i].title = grants[j].title /\ grants[i].agency = grants[j].agency)
            => i = j

\* C24: no iteration of the loop of sync_grants_to_db raises: every sync
\* that has fetched its records goes on to return its summary.
C24_SyncNeverRaises == pc # "raised"

----------------------------------------------------------------------------
(* Further properties of the matches *)

\* C25: a run of calculate_matches_for_project, from project_create or
\* for a stored project, does not raise, whatever bounds of the project and
\* of the open grants are set.
C25_ScorerNeverRaises ==
    (Computing(served) /\ served[1].project # 0) => ~served[1].raised

\* the evaluations of the pair of a stored match
C28_EvalsOf(m) ==
    {e \in evals : e.project = projects[m.project] /\ e.grant = grants[m.grant]}

\* C28: every GrantMatch that calculate_matches_for_project wrote has a
\* match_score of 70, 75, 80, 85 or 100 and exactly 3 reasons; an
\* evaluation that reaches 70 has at least three of the four reasons, and
\* when it has all four the match holds the first three, without the
\* timeline reason.
C28_ScoresAndReasons ==
    /\ \A e \in evals : e.score >= 70 => Len(e.reasons) >= 3
    /\ \A m \in MatchSet :
           /\ m.match_score \in {70, 75, 80, 85, 100}
           /\ Len(m.match_reasons) = 3
           /\ C28_EvalsOf(m) # {}
           /\ \A e \in C28_EvalsOf(m) :
                  Len(e.reasons) = 4 =>
                      /\ m.match_score = 100
                      /\ m.match_reasons = <<e.reasons[1], e.reasons[2], e.reasons[3]>>
                      /\ e.reasons[4] = TimelineReason
                      /\ ~HasReason(m.match_reasons, TimelineReason)

\* a match of a pair for which all four rules fired
C28_Witness ==
    \E m \in MatchSet :
        /\ \E e \in C28_EvalsOf(m) : Len(e.reasons) = 4 /\ e.score = 100
        /\ ~HasReason(m.match_reasons, TimelineReason)
        /\ ~m.is_saved

----------------------------------------------------------------------------
(* Further properties of the applications *)

\* C26: no two Applications have the same user, the same project and the
\* same grant, so that the get_or_create of start_application finds at most
\* one row.
C26_OneApplicationPerTriple ==
    \A a, b \in 1..Len(applications) :
        (/\ applications[a].user = applications[b].user
         /\ applications[a].project = applications[b].project
         /\ applications[a].grant = applications[b].grant) => a = b

\* the requests of update_application_status that a step may be
UpdateRequests ==
    [user : Users, application_id : 1..(Len(applications) + 1), req : StatusRequests]

IsUpdate(r) ==
    update_application_status(r.user, r.req.method, r.application_id, r.req.status)

C27_OwnProject ==
    \A a \in 1..Len(applications) :
        /\ applications[a].project \in 1..Len(projects)
        /\ projects[applications[a].project].user = applications[a].user

C27_OwnerOnly ==
    applications' # applications =>
    /\ \A r \in UpdateRequests :
           IsUpdate(r) =>
               /\ \A a \in 1..Len(applications) :
                      applications'[a].status # applications[a].status
                          => (a = r.application_id /\ applications[a].user = r.user)
               /\ (/\ r.application_id \in 1..Len(applications)
                   /\ applications[r.application_id].user # r.user)
                      => applications' = applications
    /\ \A user \in Users, grant_id \in AppliedGrantIds, project_id \in 1..Len(projects) :
           (application_create(user, grant_id, project_id)
            /\ projects[project_id].user # user) => applications' = applications

\* C27: the project of every Application belongs to the user of the
\* Application; update_application_status changes the status only of the
\* Application it names and only when that is the requesting user's; a
\* request that names an application or a project of another user leaves
\* the Application table as it was.
C27_Ownership == []C27_OwnProject /\ [][C27_OwnerOnly]_vars

\* an Application of the owner of its project that its owner moved to
\* approved
C27_Witness ==
    \E a \in 1..Len(applications) :
        /\ applications[a].status = "approved"
        /\ projects[applications[a].project].user = applications[a].user

C29_StampKept ==
    \A a \in 1..Len(applications) :
        applications[a].submitted_at # None =>
            /\ a <= Len(applications')
            /\ applications'[a].submitted_at = applications[a].submitted_at

C29_RejectedChangesNothing ==
    applications' # applications =>
        \A r \in UpdateRequests :
            (r.req.method # "POST" \/ r.req.status \notin valid_statuses)
                => ~IsUpdate(r)

\* C29: the submitted_at of an Application, once set, is the same after
\* every step, and a request of update_application_status that is not a
\* POST or names no valid status leaves the Application table as it was.
C29_SubmittedAtKept == [][C29_StampKept /\ C29_RejectedChangesNothing]_vars

\* an Application that was submitted, moved back to in_progress and
\* submitted again has the time of the first submission
C29_Witness ==
    \E a \in 1..Len(applications) :
        /\ applications[a].status = "submitted"
        /\ applications[a].submitted_at # None
        /\ applications[a].submitted_at[1] + 2 < now

====
